---- MODULE Spec2Model ----
(***************************************************************************)
(* Model of the llmbench streaming benchmark engine:                       *)
(*   runllmbench.py  LLMBenchmarkRunner, run_benchmark                     *)
(*   savellmbench.py LiveMetrics, LiveBenchmarkDisplay                     *)
(*   llmbench.py     main (the completion status)                          *)
(* Text is a sequence of characters over {"a", " "}; the clock is an       *)
(* integer that never decreases; a throughput is a quotient scaled by      *)
(* Scale and truncated.                                                    *)
(***************************************************************************)
EXTENDS Integers, Sequences, FiniteSets, TLC

\* ------------------------------------------------------------------ bounds
MaxTime == 3
MaxLines == 2
MaxPrompts == 3
MaxCount == 1
MaxHosts == 11
MaxReadds == 1

\* --------------------------------------------------------------- constants
StartClock == 1
NoTime == 0
Unbound == -1
MaxStored == 10
ApiKey == [key |-> "secret"]
Truncated == [truncated |-> TRUE]
Scale == 100
None == [none |-> TRUE]

Services == {"Ollama", "vLLM", "Llama.cpp", "Unknown"}

Min(a, b) == IF a < b THEN a ELSE b

\* ------------------------------------------------------------------- text
Chunks == {<<>>, <<"a">>, <<"a", " ">>}

\* len(text.split()): the number of maximal runs of non-blank characters
WordCount(s) ==
    Cardinality({i \in 1..Len(s) : s[i] # " " /\ (i = 1 \/ s[i - 1] = " ")})

\* int(len(text.split()) * 1.3)
EstimateTokens(s) == (13 * WordCount(s)) \div 10

\* ------------------------------------------------------------- JSON values
\* A JSON document is [t |-> "bad"] (not JSON), [t |-> "done"] (the literal
\* [DONE], which is not JSON either), [t |-> "arr"] (valid JSON that is not a
\* record) or [t |-> "obj", f |-> record of fields].
BadJson == [t |-> "bad"]
DoneSentinel == [t |-> "done"]
NonRecord == [t |-> "arr"]
Obj(fields) == [t |-> "obj", f |-> fields]

IsDict(v) == v.t = "obj"

\* dict.get(key, default)
Get(d, k, default) == IF k \in DOMAIN d.f THEN d.f[k] ELSE default

\* optional field: absent, or one of the values
Opt(k, vals) == {<<>>} \cup {k :> v : v \in vals}

Records(chunkKey, flagKey, countKey) ==
    {Obj(c @@ d @@ n) : c \in Opt(chunkKey, Chunks),
                        d \in Opt(flagKey, BOOLEAN),
                        n \in Opt(countKey, 0..MaxCount)}

ChoiceRecords == {Obj(c) : c \in Opt("text", Chunks)}
ChoicesRecords ==
    {Obj(c) : c \in Opt("choices", {<<>>} \cup {<<x>> : x \in ChoiceRecords \cup {NonRecord}})}

Bodies(service) ==
    {BadJson, DoneSentinel, NonRecord} \cup
    CASE service = "Ollama" -> Records("response", "done", "eval_count")
      [] service = "Llama.cpp" -> Records("content", "stop", "tokens_predicted")
      [] OTHER -> ChoicesRecords

\* One line of the streamed body: blank, or an optional "data: " prefix
\* followed by a document.
BlankLine == [blank |-> TRUE]
TextLine(pre, body) == [blank |-> FALSE, pre |-> pre, body |-> body]
Lines(service) ==
    {BlankLine} \cup {TextLine(pre, b) : pre \in BOOLEAN, b \in Bodies(service)}

DecodeError == [t |-> "JSONDecodeError"]

\* json.loads(text): the document, or JSONDecodeError
JsonLoads(pre, body) ==
    IF pre \/ body.t \in {"bad", "done"} THEN DecodeError ELSE body

\* ------------------------------------------------------------------ clock
\* durations in ticks of one second; on a clock of whole seconds a difference
\* is >= 0.5 exactly when it is >= 1
DisplayRefresh == 1
IdleRefresh == 1
SleepFallback == 1
SleepResult == 3
SleepBetween == 2

Prompts == [i \in 1..MaxPrompts |-> i]
PromptNames == {Prompts[i] : i \in 1..MaxPrompts}

\* prompt_selection_menu: one prompt, or "run all"
Selections == {<<Prompts[i]>> : i \in 1..MaxPrompts} \cup {Prompts}

VARIABLES
    service_name,        \* runner.service_name, fixed at construction
    selected_prompts,    \* list returned by prompt_selection_menu
    sessPc,              \* position of run_benchmark
    idx,                 \* index of the for loop over selected_prompts
    all_metrics,         \* list of the BenchmarkMetrics of successful jobs
    delivered,           \* stream lines and response bodies the service has delivered
    summary,             \* averages printed by display_summary, or None
    completion,          \* counts of the "Benchmark complete!" line, or None
    status,              \* what main() of llmbench.py returned, or None
    output_file,         \* LiveBenchmarkDisplay.output_file: "none", "open", "closed"
    log,                 \* contents of the session log file
    unflushed,           \* entries written to the file object and not yet flushed
    file_errors,         \* diagnostic lines printed about a failure of the log
    disk,                \* "ok", or "full" when the file system refuses writes
    current_metrics,     \* LiveBenchmarkDisplay.current_metrics (LiveMetrics or None)
    now,                 \* the clock, time.time()
    pc,                  \* position of the engine within the current job
    start_time,          \* locals of make_streaming_request / the fallback
    first_token_time,
    accumulated_response,
    total_tokens,
    estimated_tokens,
    last_display_update,
    sent,                \* HTTP requests sent for the current job
    result,              \* value returned by the last make_api_request_with_live_display
    hist,                \* history of the current job (not program state)
    stored_servers,      \* RemoteServerConfig.stored_servers
    config_file,         \* contents of remote_servers.json, or None when absent
    current_api_key,     \* RemoteServerConfig.current_api_key
    called               \* the last RemoteServerConfig call (not program state)

sessVars == <<service_name, selected_prompts, sessPc, idx, all_metrics, delivered,
              summary, completion, status>>
logVars == <<output_file, log, unflushed, file_errors, disk>>
localVars == <<start_time, first_token_time, accumulated_response, total_tokens,
               estimated_tokens, last_display_update>>
remoteVars == <<stored_servers, config_file, current_api_key, called>>
vars == <<sessVars, logVars, current_metrics, now, pc, localVars, sent, result, hist,
          remoteVars>>

\* instants reachable by waiting at least d ticks from t (the clock saturates)
After(t, d) == Min(t + d, MaxTime)..MaxTime

NumSelected == Len(selected_prompts)
\* the selected prompts taken from the end of the list
prompt_name_reversed == selected_prompts[NumSelected + 1 - idx]
prompt_name == selected_prompts[idx]
PromptText(name) == <<"prompt", name>>

\* --------------------------------------------------------- LiveMetrics
\* LiveMetrics(start_time=t, prompt_name=name, ...) with the dataclass defaults
NewLiveMetrics(t, name) ==
    [start_time |-> t, first_token_time |-> NoTime, current_time |-> 0,
     total_tokens |-> 0, response_text |-> <<>>, prompt_name |-> name]

total_elapsed(m) ==
    IF m.current_time > m.start_time THEN m.current_time - m.start_time ELSE 0

lm_prompt_delay_time(m) ==
    IF m.first_token_time # NoTime THEN m.first_token_time - m.start_time ELSE 0

lm_generation_time(m) ==
    IF m.first_token_time # NoTime /\ m.current_time > m.first_token_time
    THEN m.current_time - m.first_token_time ELSE 0

lm_tokens_per_second(m) ==
    IF lm_generation_time(m) > 0 /\ m.total_tokens > 0
    THEN (m.total_tokens * Scale) \div lm_generation_time(m) ELSE 0

lm_request_tokens_per_second(m) ==
    IF total_elapsed(m) > 0 /\ m.total_tokens > 0
    THEN (m.total_tokens * Scale) \div total_elapsed(m) ELSE 0

\* ------------------------------------------------- LiveBenchmarkDisplay
SessionHeader == [kind |-> "session_header"]
SessionFooter == [kind |-> "session_footer"]
PromptHeader(name) == [kind |-> "prompt", name |-> name, text |-> PromptText(name)]
FinalResults(m) ==
    [kind |-> "results", name |-> m.prompt_name,
     total_elapsed |-> total_elapsed(m),
     prompt_delay_time |-> lm_prompt_delay_time(m),
     generation_time |-> lm_generation_time(m),
     total_tokens |-> m.total_tokens,
     tokens_per_second |-> lm_tokens_per_second(m),
     request_tokens_per_second |-> lm_request_tokens_per_second(m),
     response_text |-> m.response_text]

\* The log keeps the entries of the jobs that have returned by kind and prompt
\* name only; the entries of the current job are kept in full.
Brief(entry) ==
    IF entry.kind \in {"prompt", "results"}
    THEN [kind |-> entry.kind, name |-> entry.name]
    ELSE entry
BriefLog(contents) == [i \in 1..Len(contents) |-> Brief(contents[i])]

\* output_file.write(entry): the entry joins the buffer of the file object
FileWrite(buf, entry) == Append(buf, entry)

\* a flush that returns without moving the buffer to the file
FileFlushSkipped(d, contents, buf) ==
    [raised |-> FALSE, log |-> contents, buf |-> buf]

\* output_file.flush(): the buffer reaches the file, or OSError is raised and
\* the buffer keeps its entries when the file system refuses the write
FileFlush(d, contents, buf) ==
    IF d = "ok"
    THEN [raised |-> FALSE, log |-> contents \o buf, buf |-> <<>>]
    ELSE [raised |-> TRUE, log |-> contents, buf |-> buf]

\* output_file.write(entry); output_file.flush(), guarded by "if self.output_file"
WriteFlush(file, d, contents, buf, entry) ==
    IF file # "none"
    THEN FileFlush(d, contents, FileWrite(buf, entry))
    ELSE [raised |-> FALSE, log |-> contents, buf |-> buf]

\* the file, the buffer and the exception after one guarded write and flush
Write(file, contents, entry) == WriteFlush(file, disk, contents, unflushed, entry).log
Pending(file, entry) == WriteFlush(file, disk, log, unflushed, entry).buf
Raises(file) == WriteFlush(file, disk, log, unflushed, None).raised

\* output_file.close(): what is still buffered is written out when it can be
FileClose(d, contents, buf) == IF d = "ok" THEN contents \o buf ELSE contents

\* start_prompt_benchmark(prompt_name, prompt_text) at instant t
start_prompt_benchmark(t, name) ==
    /\ current_metrics' = NewLiveMetrics(t, name)
    /\ log' = Write(output_file, log, PromptHeader(name))
    /\ unflushed' = Pending(output_file, PromptHeader(name))
    /\ UNCHANGED <<output_file, disk>>

\* update_first_token() leaving the LiveMetrics as it is
update_first_token_unmarked(m, t) == m

\* update_first_token() at instant t
update_first_token(m, t) ==
    IF m # None THEN [m EXCEPT !.first_token_time = t] ELSE m

\* update_response(additional_text, token_count) at instant t
update_response(m, text, count, t) ==
    IF m # None
    THEN [m EXCEPT !.response_text = @ \o text, !.current_time = t,
                   !.total_tokens = count]
    ELSE m

\* complete_prompt_benchmark(final_response, final_token_count) at instant t:
\* the LiveMetrics after it
CompletedMetrics(m, text, count, t) ==
    [m EXCEPT !.response_text = text, !.total_tokens = count, !.current_time = t]

\* _update_display(): the figures shown, all read from current_metrics
update_display(m) ==
    [total_elapsed |-> total_elapsed(m),
     prompt_delay_time |->
         IF m.first_token_time # NoTime THEN lm_prompt_delay_time(m) ELSE "waiting",
     generation_time |->
         IF m.first_token_time # NoTime THEN lm_generation_time(m) ELSE "waiting",
     total_tokens |-> m.total_tokens,
     tokens_per_second |->
         IF lm_tokens_per_second(m) > 0 THEN lm_tokens_per_second(m) ELSE "calculating",
     request_tokens_per_second |->
         IF lm_request_tokens_per_second(m) > 0
         THEN lm_request_tokens_per_second(m) ELSE "calculating",
     response_text |-> IF m.response_text # <<>> THEN m.response_text ELSE "waiting"]

\* ------------------------------------------------------ the HTTP requests
\* get_api_endpoint_and_payload(prompt, streaming)
\* the same, with an unsupported service sent to the last endpoint
EndpointDefault(service, prompt, streaming) ==
    CASE service = "Ollama" ->
           [ok |-> TRUE, endpoint |-> "/api/generate",
            payload |-> [model |-> "selected_model", prompt |-> prompt,
                         stream |-> streaming]]
      [] service = "vLLM" ->
           [ok |-> TRUE, endpoint |-> "/v1/completions",
            payload |-> [model |-> "selected_model", prompt |-> prompt,
                         max_tokens |-> 500, stream |-> streaming]]
      [] OTHER ->
           [ok |-> TRUE, endpoint |-> "/completion",
            payload |-> [prompt |-> prompt, n_predict |-> 500,
                         stream |-> streaming]]

\* get_api_endpoint_and_payload refusing an unsupported service for the
\* first prompt only
EndpointPerPrompt(service, prompt, streaming) ==
    IF service \in {"Ollama", "vLLM", "Llama.cpp"} \/ prompt # PromptText(Prompts[1])
    THEN EndpointDefault(service, prompt, streaming)
    ELSE [ok |-> FALSE]

get_api_endpoint_and_payload(service, prompt, streaming) ==
    CASE service = "Ollama" ->
           [ok |-> TRUE, endpoint |-> "/api/generate",
            payload |-> [model |-> "selected_model", prompt |-> prompt,
                         stream |-> streaming]]
      [] service = "vLLM" ->
           [ok |-> TRUE, endpoint |-> "/v1/completions",
            payload |-> [model |-> "selected_model", prompt |-> prompt,
                         max_tokens |-> 500, stream |-> streaming]]
      [] service = "Llama.cpp" ->
           [ok |-> TRUE, endpoint |-> "/completion",
            payload |-> [prompt |-> prompt, n_predict |-> 500,
                         stream |-> streaming]]
      [] OTHER -> [ok |-> FALSE]

Request(ep, streamed) ==
    [job |-> idx, endpoint |-> ep.endpoint, payload |-> ep.payload,
     headers |-> "auth_headers", stream |-> streamed]

\* the locals of a frame that has returned or raised no longer exist
ResetLocals ==
    /\ first_token_time' = NoTime
    /\ accumulated_response' = <<>>
    /\ total_tokens' = 0
    /\ estimated_tokens' = Unbound
    /\ last_display_update' = NoTime

\* history of a job: why the streaming attempt failed, whether it had
\* accumulated some text then, whether an explicit end marker was seen, the
\* class of the last line delivered, the line on which the loop was left,
\* where the job was when the operator interrupted it, the instants the
\* fallback read for its LiveMetrics and for its start_time, and the
\* fallback's response
NoHist == [fail |-> "none", partial |-> FALSE, final |-> FALSE,
           last |-> "none", line |-> None, at |-> "none",
           fdisp |-> NoTime, fstart |-> NoTime, fbody |-> None,
           closed_writes |-> 0]

\* no RemoteServerConfig call has been made, no remote_servers.json exists
NoCall == [op |-> "none", arg |-> None, ret |-> None, hosts |-> 0, readds |-> 0]
NoRemote ==
    /\ stored_servers = <<>>
    /\ config_file = None
    /\ current_api_key = None
    /\ called = NoCall

\* ------------------------------------------------------------------- Init
Init ==
    /\ service_name \in Services
    /\ selected_prompts \in Selections
    /\ sessPc = "constructed"
    /\ idx = 1
    /\ all_metrics = <<>>
    /\ delivered = 0
    /\ summary = None
    /\ completion = None
    /\ status = None
    /\ output_file = "none"
    /\ log = <<>>
    /\ unflushed = <<>>
    /\ file_errors = 0
    /\ disk = "ok"
    /\ current_metrics = None
    /\ now = StartClock
    /\ pc = "Idle"
    /\ start_time = NoTime
    /\ first_token_time = NoTime
    /\ accumulated_response = <<>>
    /\ total_tokens = 0
    /\ estimated_tokens = Unbound
    /\ last_display_update = NoTime
    /\ sent = <<>>
    /\ result = None
    /\ hist = NoHist
    /\ NoRemote

\* start_session() keeping the file object when the write of the header raised
StartSessionKeepsFile ==
    /\ sessPc = "constructed"
    /\ sessPc' = "running"
    /\ \E opened \in BOOLEAN :
         /\ output_file' = IF opened THEN "open" ELSE "none"
         /\ log' = IF opened THEN Write("open", log, SessionHeader) ELSE log
         /\ unflushed' = IF opened THEN Pending("open", SessionHeader) ELSE <<>>
         /\ file_errors' = IF opened /\ ~Raises("open") THEN file_errors
                           ELSE file_errors + 1
    /\ UNCHANGED <<service_name, selected_prompts, summary, completion, status, idx,
                   all_metrics, delivered, disk,
                   current_metrics, now, pc, localVars, sent, result, hist>>
    /\ UNCHANGED remoteVars

\* start_session(): open the log and write the header, or report the failure
StartSession ==
    /\ sessPc = "constructed"
    /\ sessPc' = "running"
    /\ \E opened \in BOOLEAN :
         IF opened /\ ~Raises("open")
         THEN /\ output_file' = "open"
              /\ log' = Write("open", log, SessionHeader)
              /\ unflushed' = Pending("open", SessionHeader)
              /\ file_errors' = file_errors
         ELSE \* open() or the write of the header raised: "Error creating
              \* output file" is printed and the file object is dropped
              /\ output_file' = "none"
              /\ log' = log
              /\ unflushed' = <<>>
              /\ file_errors' = file_errors + 1
    /\ UNCHANGED <<service_name, selected_prompts, summary, completion, status, idx,
                   all_metrics, delivered, disk,
                   current_metrics, now, pc, localVars, sent, result, hist>>
    /\ UNCHANGED remoteVars

\* run_single_benchmark -> make_api_request_with_live_display ->
\* make_streaming_request, up to the sending of the streaming request
StartJob ==
    /\ sessPc = "running"
    /\ pc = "Idle"
    /\ idx <= NumSelected
    /\ LET ep == get_api_endpoint_and_payload(service_name, PromptText(prompt_name), TRUE)
       IN IF ~ep.ok
          THEN \* ValueError, caught by make_api_request_with_live_display
               /\ pc' = "FallbackSleep"
               /\ hist' = [NoHist EXCEPT !.fail = "config"]
               /\ sent' = <<>>
               /\ start_time' = NoTime
               /\ UNCHANGED <<logVars, current_metrics, now>>
          ELSE \E t1 \in now..MaxTime : \E t2 \in t1..MaxTime :
               /\ start_prompt_benchmark(t1, prompt_name)
               /\ IF Raises(output_file)
                  THEN \* OSError at line 91, outside the try of
                       \* make_streaming_request: "Streaming failed"
                       /\ start_time' = NoTime
                       /\ now' = t1
                       /\ sent' = <<>>
                       /\ pc' = "FallbackSleep"
                       /\ hist' = [NoHist EXCEPT !.fail = "log"]
                       /\ file_errors' = file_errors + 1
                  ELSE /\ start_time' = t2
                       /\ now' = t2
                       /\ sent' = <<Request(ep, TRUE)>>
                       /\ pc' = "Requesting"
                       /\ hist' = NoHist
                       /\ file_errors' = file_errors
    /\ ResetLocals
    /\ result' = None
    /\ UNCHANGED sessVars
    /\ UNCHANGED remoteVars

\* requests.post(..., stream=True) returned and raise_for_status() passed
OpenStream ==
    /\ pc = "Requesting"
    /\ \E t \in now..MaxTime :
         /\ now' = t
         /\ last_display_update' = t
    /\ pc' = "Streaming"
    /\ UNCHANGED <<sessVars, logVars, current_metrics, start_time, first_token_time,
                   accumulated_response, total_tokens, estimated_tokens, sent,
                   result, hist>>
    /\ UNCHANGED remoteVars

\* requests.post raised (connection refused, timeout) or raise_for_status()
\* raised HTTPError: RequestException, re-raised to the caller
OpenFail ==
    /\ pc = "Requesting"
    /\ hist' = [hist EXCEPT !.fail = "open"]
    /\ \E t \in now..MaxTime : now' = t
    /\ pc' = "FallbackSleep"
    /\ ResetLocals
    /\ UNCHANGED <<sessVars, logVars, current_metrics, start_time, sent, result>>
    /\ UNCHANGED remoteVars

\* --------------------------------------------------- the streaming loop
\* The loop body works on the record
\*   [ftt, acc, est, tot, ldu, lm, ctl]
\* of first_token_time, accumulated_response, estimated_tokens, total_tokens,
\* last_display_update, current_metrics and what the iteration ends with:
\* "next" (go on with the next line), "skip" (continue after JSONDecodeError),
\* "break" (explicit end of the stream) or "raise" (an exception other than
\* JSONDecodeError leaves the loop).
LoopState ==
    [ftt |-> first_token_time, acc |-> accumulated_response,
     est |-> estimated_tokens, tot |-> total_tokens,
     ldu |-> last_display_update, lm |-> current_metrics, ctl |-> "next"]

\* the first token marked on every record
MarkFirstTokenAlways(ls, t, t2) ==
    [ls EXCEPT !.ftt = t, !.lm = update_first_token(ls.lm, t2)]

\* if first_token_time is None: first_token_time = time.time(); update_first_token()
MarkFirstToken(ls, t, t2) ==
    IF ls.ftt = NoTime
    THEN [ls EXCEPT !.ftt = t, !.lm = update_first_token(ls.lm, t2)]
    ELSE ls

\* accumulated_response += chunk; if chunk: estimate and update_response
AddChunk(ls, chunk, t2) ==
    LET acc == ls.acc \o chunk
    IN IF chunk # <<>>
       THEN [ls EXCEPT !.acc = acc, !.est = EstimateTokens(acc),
                       !.lm = update_response(ls.lm, chunk, EstimateTokens(acc), t2)]
       ELSE [ls EXCEPT !.acc = acc]

\* if current_time - last_display_update >= period: _update_display()
Refresh(ls, period, t2) ==
    IF t2 - ls.ldu >= period THEN [ls EXCEPT !.ldu = t2] ELSE ls

\* if data.get(flag, False): total_tokens = data.get(count, estimated_tokens); break
\* (the default argument is evaluated before the call: UnboundLocalError when
\* no non-empty chunk has been seen)
CheckDone(ls, data, flagKey, countKey) ==
    IF Get(data, flagKey, FALSE)
    THEN IF ls.est = Unbound
         THEN [ls EXCEPT !.ctl = "raise"]
         ELSE [ls EXCEPT !.tot = Get(data, countKey, ls.est), !.ctl = "break"]
    ELSE ls

\* "except json.JSONDecodeError: continue" and what other exceptions do
OnDecodeErrorRaise(ls) == [ls EXCEPT !.ctl = "raise"]
OnDecodeError(ls) == [ls EXCEPT !.ctl = "skip"]
OnOtherError(ls) == [ls EXCEPT !.ctl = "raise"]

\* Ollama branch, lines 112-139
OllamaLine(ls, line, t, t2) ==
    LET data == JsonLoads(line.pre, line.body)
    IN IF data = DecodeError THEN OnDecodeError(ls)
       ELSE LET s1 == MarkFirstToken(ls, t, t2)
            IN IF ~IsDict(data) THEN OnOtherError(s1)
               ELSE LET s2 == AddChunk(s1, Get(data, "response", <<>>), t2)
                        s3 == Refresh(s2, DisplayRefresh, t2)
                    IN CheckDone(s3, data, "done", "eval_count")

\* Llama.cpp branch, lines 169-194
LlamaCppLine(ls, line, t, t2) ==
    LET data == JsonLoads(line.pre, line.body)
    IN IF data = DecodeError THEN OnDecodeError(ls)
       ELSE LET s1 == MarkFirstToken(ls, t, t2)
            IN IF ~IsDict(data) THEN OnOtherError(s1)
               ELSE LET chunk == Get(data, "content", <<>>)
                        s2 == AddChunk(s1, chunk, t2)
                        s3 == IF chunk # <<>> THEN Refresh(s2, DisplayRefresh, t2) ELSE s2
                    IN CheckDone(s3, data, "stop", "tokens_predicted")

\* vLLM branch, lines 141-167
VllmLine(ls, line, t, t2) ==
    IF ~line.pre THEN ls
    ELSE IF line.body = DoneSentinel THEN [ls EXCEPT !.ctl = "break"]
    ELSE LET data == JsonLoads(FALSE, line.body)
         IN IF data = DecodeError THEN OnDecodeError(ls)
            ELSE IF ~IsDict(data) THEN OnOtherError(ls)
            ELSE LET choices == Get(data, "choices", <<>>)
                 IN IF choices = <<>> THEN ls
                    ELSE LET s1 == MarkFirstToken(ls, t, t2)
                         IN IF ~IsDict(choices[1]) THEN OnOtherError(s1)
                            ELSE LET chunk == Get(choices[1], "text", <<>>)
                                     s2 == AddChunk(s1, chunk, t2)
                                 IN IF chunk # <<>>
                                    THEN Refresh(s2, DisplayRefresh, t2)
                                    ELSE s2

\* What a line is, by its shape alone: "blank"; "ignored" (vLLM: no "data: "
\* prefix); "malformed" (not JSON); "nonrecord" (JSON, but not a record of the
\* expected shape); "final" (explicit end marker); "record" (content record).
LineClass(service, line) ==
    IF line.blank THEN "blank"
    ELSE IF service = "vLLM"
    THEN IF ~line.pre THEN "ignored"
         ELSE IF line.body = DoneSentinel THEN "final"
         ELSE IF line.body.t = "bad" THEN "malformed"
         ELSE IF line.body.t # "obj" THEN "nonrecord"
         ELSE IF "choices" \in DOMAIN line.body.f /\ line.body.f.choices # <<>>
                 /\ line.body.f.choices[1].t # "obj" THEN "nonrecord"
         ELSE "record"
    ELSE IF line.pre \/ line.body.t \in {"bad", "done"} THEN "malformed"
         ELSE IF line.body.t # "obj" THEN "nonrecord"
         ELSE LET flag == IF service = "Ollama" THEN "done" ELSE "stop"
              IN IF flag \in DOMAIN line.body.f /\ line.body.f[flag]
                 THEN "final" ELSE "record"

\* one iteration of "for line in response.iter_lines()", lines 108-204
LoopBody(service, ls, line, t, t2) ==
    LET s1 == IF line.blank THEN ls
              ELSE CASE service = "Ollama" -> OllamaLine(ls, line, t, t2)
                     [] service = "vLLM" -> VllmLine(ls, line, t, t2)
                     [] service = "Llama.cpp" -> LlamaCppLine(ls, line, t, t2)
                     [] OTHER -> ls
    IN IF s1.ctl = "next" THEN Refresh(s1, IdleRefresh, t2) ELSE s1

\* --------------------------------------------------------- finalization
\* the generation time measured from the start of the request
BenchmarkMetricsGenFromStart(start, ftt, end, tokens, name, service) ==
    [total_time |-> end - start,
     prompt_delay_time |-> ftt - start,
     generation_time |-> end - start,
     total_tokens |-> tokens,
     tokens_per_second |->
         IF end - start > 0 THEN (tokens * Scale) \div (end - start) ELSE 0,
     request_tokens_per_second |->
         IF end - start > 0 THEN (tokens * Scale) \div (end - start) ELSE 0,
     prompt_name |-> name,
     service_name |-> service]

\* the throughputs with a denominator raised to one tick instead of a guard
BenchmarkMetricsClamped(start, ftt, end, tokens, name, service) ==
    [total_time |-> end - start,
     prompt_delay_time |-> ftt - start,
     generation_time |-> end - ftt,
     total_tokens |-> tokens,
     tokens_per_second |->
         (tokens * Scale) \div (IF end - ftt > 0 THEN end - ftt ELSE 1),
     request_tokens_per_second |->
         (tokens * Scale) \div (IF end - start > 0 THEN end - start ELSE 1),
     prompt_name |-> name,
     service_name |-> service]

\* lines 220-238 and 288-306
BenchmarkMetrics(start, ftt, end, tokens, name, service) ==
    [total_time |-> end - start,
     prompt_delay_time |-> ftt - start,
     generation_time |-> end - ftt,
     total_tokens |-> tokens,
     tokens_per_second |->
         IF end - ftt > 0 THEN (tokens * Scale) \div (end - ftt) ELSE 0,
     request_tokens_per_second |->
         IF end - start > 0 THEN (tokens * Scale) \div (end - start) ELSE 0,
     prompt_name |-> name,
     service_name |-> service]

\* "if total_tokens == 0: total_tokens = int(len(accumulated_response.split()) * 1.3)"
FinalTokenCountKeep(tot, acc) == tot
FinalTokenCount(tot, acc) == IF tot = 0 THEN EstimateTokens(acc) ELSE tot

\* complete_prompt_benchmark(text, tokens) at instant t: new LiveMetrics and log
complete_prompt_benchmark(m, text, tokens, t) ==
    IF m # None
    THEN /\ current_metrics' = CompletedMetrics(m, text, tokens, t)
         /\ log' = Write(output_file, log, FinalResults(CompletedMetrics(m, text, tokens, t)))
         /\ unflushed' = Pending(output_file, FinalResults(CompletedMetrics(m, text, tokens, t)))
         /\ UNCHANGED <<output_file, disk>>
    ELSE UNCHANGED <<current_metrics, output_file, log, unflushed, disk>>

\* lines 206-238: the stream was left by break or by exhaustion, with loop
\* state ls; end_time is read at tEnd, complete_prompt_benchmark runs at tDone
Finalize(ls, tEnd, tDone) ==
    LET ftt == IF ls.ftt = NoTime THEN start_time ELSE ls.ftt
        tot == FinalTokenCount(ls.tot, ls.acc)
    IN /\ complete_prompt_benchmark(ls.lm, ls.acc, tot, tDone)
       /\ IF Raises(output_file)
          THEN \* OSError from _write_final_results, caught at line 243 and
               \* re-raised: "Streaming failed"
               /\ ResetLocals
               /\ result' = None
               /\ pc' = "FallbackSleep"
               /\ file_errors' = file_errors + 2
          ELSE /\ first_token_time' = ftt
               /\ total_tokens' = tot
               /\ accumulated_response' = ls.acc
               /\ estimated_tokens' = Unbound
               /\ last_display_update' = NoTime
               /\ result' = BenchmarkMetrics(start_time, ftt, tEnd, tot, prompt_name,
                                             service_name)
               /\ pc' = "Done"
               /\ file_errors' = file_errors
       /\ now' = tDone
       /\ UNCHANGED <<start_time, sent>>

\* the loop state is stored back into the locals
StoreLoopState(ls) ==
    /\ first_token_time' = ls.ftt
    /\ accumulated_response' = ls.acc
    /\ estimated_tokens' = ls.est
    /\ total_tokens' = ls.tot
    /\ last_display_update' = ls.ldu
    /\ current_metrics' = ls.lm

\* iter_lines() delivers one more line
ProcessLine ==
    /\ pc = "Streaming"
    /\ delivered < MaxLines
    /\ delivered' = delivered + 1
    /\ \E line \in Lines(service_name) :
       \E t \in now..MaxTime :
         LET t2 == t
             ls == LoopBody(service_name, LoopState, line, t, t2)
         IN CASE ls.ctl = "break" ->
                   /\ Finalize(ls, t2, t2)
                   /\ hist' = [hist EXCEPT !.final = TRUE, !.line = line,
                                           !.last = LineClass(service_name, line),
                                           !.fail = IF Raises(output_file)
                                                    THEN "log" ELSE @]
              [] ls.ctl = "raise" ->
                   /\ ResetLocals
                   /\ current_metrics' = ls.lm
                   /\ now' = t2
                   /\ pc' = "FallbackSleep"
                   /\ hist' = [hist EXCEPT !.fail = "processing",
                                           !.partial = (ls.acc # <<>>),
                                           !.line = line,
                                           !.last = LineClass(service_name, line)]
                   /\ UNCHANGED <<logVars, start_time, sent, result>>
              [] OTHER ->
                   /\ StoreLoopState(ls)
                   /\ now' = t2
                   /\ pc' = "Streaming"
                   /\ hist' = [hist EXCEPT !.last = LineClass(service_name, line)]
                   /\ UNCHANGED <<logVars, start_time, sent, result>>
    /\ UNCHANGED <<service_name, selected_prompts, summary, completion, status, sessPc,
                   idx, all_metrics>>
    /\ UNCHANGED remoteVars

\* iter_lines() is exhausted: the body ended without an explicit end marker
StreamEnd ==
    /\ pc = "Streaming"
    /\ \E t \in now..MaxTime : Finalize(LoopState, t, t)
    /\ hist' = [hist EXCEPT !.fail = IF Raises(output_file) THEN "log" ELSE @]
    /\ UNCHANGED sessVars
    /\ UNCHANGED remoteVars

\* the handler of the streaming attempt completing the prompt with the
\* partial text before it re-raises
ReadFailComplete ==
    /\ pc = "Streaming"
    /\ hist' = [hist EXCEPT !.fail = "read", !.partial = (accumulated_response # <<>>)]
    /\ \E t \in now..MaxTime :
         /\ now' = t
         /\ complete_prompt_benchmark(current_metrics, accumulated_response,
                                      FinalTokenCount(total_tokens, accumulated_response), t)
    /\ pc' = "FallbackSleep"
    /\ ResetLocals
    /\ UNCHANGED <<sessVars, start_time, sent, result, file_errors>>
    /\ UNCHANGED remoteVars

\* iter_lines() raised a RequestException (connection dropped, read timeout)
ReadFail ==
    /\ pc = "Streaming"
    /\ hist' = [hist EXCEPT !.fail = "read", !.partial = (accumulated_response # <<>>)]
    /\ \E t \in now..MaxTime : now' = t
    /\ pc' = "FallbackSleep"
    /\ ResetLocals
    /\ UNCHANGED <<sessVars, logVars, current_metrics, start_time, sent, result>>
    /\ UNCHANGED remoteVars

\* ------------------------------------------------------------ the fallback
UsageRecords == {Obj(n) : n \in Opt("completion_tokens", 0..MaxCount)}
CompletionRecords ==
    {Obj(c @@ u) :
        c \in Opt("choices", {<<>>} \cup {<<x>> : x \in ChoiceRecords \cup {NonRecord}}),
        u \in Opt("usage", UsageRecords)}

Answers(textKey, countKey) ==
    {Obj(c @@ n) : c \in Opt(textKey, Chunks), n \in Opt(countKey, 0..MaxCount)}

\* bodies of a non-streaming response
FallbackBodies(service) ==
    {BadJson, NonRecord} \cup
    CASE service = "Ollama" -> Answers("response", "eval_count")
      [] service = "Llama.cpp" -> Answers("content", "tokens_predicted")
      [] OTHER -> CompletionRecords

\* extract_response_info(result), lines 315-340: [ok, text, tokens], where ok
\* is FALSE when the extraction raises
extract_response_info(service, res) ==
    IF ~IsDict(res) THEN [ok |-> FALSE]
    ELSE CASE service = "Ollama" ->
                LET text == Get(res, "response", <<>>)
                IN [ok |-> TRUE, text |-> text,
                    tokens |-> Get(res, "eval_count", EstimateTokens(text))]
           [] service = "Llama.cpp" ->
                LET text == Get(res, "content", <<>>)
                IN [ok |-> TRUE, text |-> text,
                    tokens |-> Get(res, "tokens_predicted", EstimateTokens(text))]
           [] OTHER ->
                LET choices == Get(res, "choices", <<>>)
                IN IF choices = <<>> THEN [ok |-> TRUE, text |-> <<>>, tokens |-> 0]
                   ELSE IF ~IsDict(choices[1]) THEN [ok |-> FALSE]
                   ELSE LET text == Get(choices[1], "text", <<>>)
                            usage == Get(res, "usage", Obj(<<>>))
                        IN [ok |-> TRUE, text |-> text,
                            tokens |-> Get(usage, "completion_tokens",
                                           EstimateTokens(text))]

\* the fallback going on with the LiveMetrics and the start_time of the
\* streaming attempt
FallbackStartKeep ==
    /\ pc = "FallbackSleep"
    /\ LET ep == get_api_endpoint_and_payload(service_name, PromptText(prompt_name), FALSE)
       IN IF ~ep.ok
          THEN /\ \E t \in After(now, SleepFallback) : now' = t
               /\ pc' = "Failed"
               /\ UNCHANGED <<sent, hist>>
          ELSE \E t1 \in After(now, SleepFallback) : \E t2 \in t1..MaxTime :
               /\ now' = t2
               /\ sent' = Append(sent, Request(ep, FALSE))
               /\ pc' = "FallbackRequesting"
               /\ hist' = [hist EXCEPT !.fdisp = t1, !.fstart = t2]
    /\ ResetLocals
    /\ result' = None
    /\ UNCHANGED <<sessVars, logVars, current_metrics, start_time>>
    /\ UNCHANGED remoteVars

\* the streaming attempt raised: sleep(1), then the fallback up to the sending
\* of the non-streaming request (lines 252-270)
FallbackStart ==
    /\ pc = "FallbackSleep"
    /\ LET ep == get_api_endpoint_and_payload(service_name, PromptText(prompt_name), FALSE)
       IN IF ~ep.ok
          THEN \* ValueError again, not caught here: run_single_benchmark returns None
               /\ \E t \in After(now, SleepFallback) : now' = t
               /\ pc' = "Failed"
               /\ UNCHANGED <<logVars, current_metrics, sent, hist, start_time>>
          ELSE \E t1 \in After(now, SleepFallback) : \E t2 \in t1..MaxTime :
               /\ start_prompt_benchmark(t1, prompt_name)
               /\ IF Raises(output_file)
                  THEN \* OSError at line 263, outside the try of the fallback:
                       \* "Failed to run benchmark", run_single_benchmark
                       \* returns None
                       /\ now' = t1
                       /\ pc' = "Failed"
                       /\ hist' = [hist EXCEPT !.fail = "log"]
                       /\ file_errors' = file_errors + 1
                       /\ UNCHANGED <<sent, start_time>>
                  ELSE /\ start_time' = t2
                       /\ now' = t2
                       /\ sent' = Append(sent, Request(ep, FALSE))
                       /\ pc' = "FallbackRequesting"
                       /\ hist' = [hist EXCEPT !.fdisp = t1, !.fstart = t2]
                       /\ file_errors' = file_errors
    /\ ResetLocals
    /\ result' = None
    /\ UNCHANGED sessVars
    /\ UNCHANGED remoteVars

\* requests.post(...) of the fallback returned a response (lines 270-306)
FallbackResponse ==
    /\ pc = "FallbackRequesting"
    /\ \E http \in {"ok", "error"} : \E body \in FallbackBodies(service_name) :
       \E t \in now..MaxTime : \E t2 \in t..MaxTime :
         LET lm == update_first_token(current_metrics, t)
             res == JsonLoads(FALSE, body)
             info == extract_response_info(service_name, res)
         IN /\ http = "ok" => delivered < MaxLines
            /\ delivered' = IF http = "ok" THEN delivered + 1 ELSE delivered
            /\ first_token_time' = t
            /\ IF http = "error" \/ res = DecodeError \/ ~info.ok
               THEN \* raise_for_status(), response.json() or the extraction raised
                    /\ current_metrics' = lm
                    /\ now' = t2
                    /\ pc' = "Failed"
                    /\ result' = None
                    /\ hist' = [hist EXCEPT !.fbody = IF http = "ok" THEN body
                                                         ELSE [t |-> "http_error"]]
                    /\ UNCHANGED <<logVars, accumulated_response, total_tokens>>
               ELSE /\ accumulated_response' = info.text
                    /\ total_tokens' = info.tokens
                    /\ complete_prompt_benchmark(lm, info.text, info.tokens, t2)
                    /\ now' = t2
                    /\ IF Raises(output_file)
                       THEN \* OSError from _write_final_results, caught at line
                            \* 311 and re-raised: "Failed to run benchmark"
                            /\ result' = None
                            /\ pc' = "Failed"
                            /\ hist' = [hist EXCEPT !.fbody = body, !.fail = "log"]
                            /\ file_errors' = file_errors + 2
                       ELSE /\ result' = BenchmarkMetrics(start_time, t, t2, info.tokens,
                                                          prompt_name, service_name)
                            /\ pc' = "Done"
                            /\ hist' = [hist EXCEPT !.fbody = body]
                            /\ file_errors' = file_errors
    /\ UNCHANGED <<service_name, selected_prompts, summary, completion, status, sessPc,
                   idx, all_metrics,
                   start_time, estimated_tokens, last_display_update, sent>>
    /\ UNCHANGED remoteVars

\* a failed fallback request sent once more
FallbackFailRetry ==
    /\ pc = "FallbackRequesting"
    /\ Len(sent) < 3
    /\ \E t \in now..MaxTime : now' = t
    /\ sent' = Append(sent, sent[Len(sent)])
    /\ UNCHANGED <<sessVars, logVars, current_metrics, localVars, pc, result, hist>>
    /\ UNCHANGED remoteVars

\* requests.post(...) of the fallback raised (connection refused, timeout)
FallbackFail ==
    /\ pc = "FallbackRequesting"
    /\ \E t \in now..MaxTime : now' = t
    /\ pc' = "Failed"
    /\ result' = None
    /\ hist' = [hist EXCEPT !.fbody = [t |-> "raised"]]
    /\ UNCHANGED <<sessVars, logVars, current_metrics, localVars, sent>>
    /\ UNCHANGED remoteVars

\* -------------------------------------------------------------- the session
\* the value main() of llmbench.py returns, given to sys.exit
Exit(code) == [code |-> code]

\* end_session() when its writes succeed: the footer is written and flushed
\* and the file is closed, if a log is open
end_session(contents) ==
    IF output_file # "none"
    THEN /\ log' = FileClose(disk, Write(output_file, contents, SessionFooter),
                             Pending(output_file, SessionFooter))
         /\ unflushed' = <<>>
         /\ output_file' = "closed"
         /\ UNCHANGED disk
    ELSE /\ log' = contents
         /\ UNCHANGED <<output_file, unflushed, disk>>

\* run_single_benchmark without its handler: the exception of a failed job
\* reaches run_benchmark, which ends the session
ReturnJobAbort ==
    /\ sessPc = "running"
    /\ pc \in {"Done", "Failed"}
    /\ all_metrics' = IF result # None THEN Append(all_metrics, result) ELSE all_metrics
    /\ \E t \in After(now, (IF pc = "Done" THEN SleepResult ELSE 0)
                          + (IF NumSelected > 1 THEN SleepBetween ELSE 0)) :
         now' = t
    /\ IF pc = "Failed"
       THEN /\ sessPc' = "ended"
            /\ idx' = idx
            /\ IF output_file # "none"
               THEN /\ log' = Write(output_file, BriefLog(log), SessionFooter)
                    /\ output_file' = "closed"
                    /\ UNCHANGED <<unflushed, file_errors, disk>>
               ELSE UNCHANGED logVars
       ELSE /\ sessPc' = sessPc
            /\ idx' = idx + 1
            /\ log' = BriefLog(log)
            /\ UNCHANGED <<output_file, unflushed, file_errors, disk>>
    /\ pc' = "Idle"
    /\ ResetLocals
    /\ start_time' = NoTime
    /\ sent' = <<>>
    /\ result' = None
    /\ hist' = NoHist
    /\ UNCHANGED <<service_name, selected_prompts, summary, completion, status, delivered,
                   current_metrics>>
    /\ UNCHANGED remoteVars

\* run_single_benchmark refreshing the display of the finished job through
\* update_response while it shows the final results
ReturnJobTouches ==
    /\ sessPc = "running"
    /\ pc \in {"Done", "Failed"}
    /\ all_metrics' = IF result # None THEN Append(all_metrics, result) ELSE all_metrics
    /\ \E t \in After(now, (IF pc = "Done" THEN SleepResult ELSE 0)
                          + (IF NumSelected > 1 THEN SleepBetween ELSE 0)) :
         /\ now' = t
         /\ current_metrics' =
              IF current_metrics # None
              THEN update_response(current_metrics, <<>>, current_metrics.total_tokens, t)
              ELSE current_metrics
    /\ idx' = idx + 1
    /\ pc' = "Idle"
    /\ ResetLocals
    /\ start_time' = NoTime
    /\ sent' = <<>>
    /\ result' = None
    /\ hist' = NoHist
    /\ log' = BriefLog(log)
    /\ unflushed' = BriefLog(unflushed)
    /\ UNCHANGED <<service_name, selected_prompts, summary, completion, status, sessPc,
                   delivered, output_file, file_errors, disk>>
    /\ UNCHANGED remoteVars

\* run_single_benchmark returns (after sleep(3) on success); run_benchmark
\* collects the result and pauses when several prompts were selected
ReturnJob ==
    /\ sessPc = "running"
    /\ pc \in {"Done", "Failed"}
    /\ all_metrics' = IF result # None THEN Append(all_metrics, result) ELSE all_metrics
    /\ \E t \in After(now, (IF pc = "Done" THEN SleepResult ELSE 0)
                          + (IF NumSelected > 1 THEN SleepBetween ELSE 0)) :
         now' = t
    /\ idx' = idx + 1
    /\ pc' = "Idle"
    /\ ResetLocals
    /\ start_time' = NoTime
    /\ sent' = <<>>
    /\ result' = None
    /\ hist' = NoHist
    /\ log' = BriefLog(log)
    /\ unflushed' = BriefLog(unflushed)
    /\ UNCHANGED <<service_name, selected_prompts, summary, completion, status, sessPc,
                   delivered, output_file, file_errors, disk, current_metrics>>
    /\ UNCHANGED remoteVars

\* sum(m.field for m in all_metrics)
RECURSIVE SumOf(_, _)
SumOf(ms, field) ==
    IF ms = <<>> THEN 0 ELSE ms[1][field] + SumOf(Tail(ms), field)

\* sum(...) / len(all_metrics), as a quotient scaled by Scale and truncated
Average(ms, field) == (SumOf(ms, field) * Scale) \div Len(ms)

\* the averages taken over the number of selected prompts
display_summary_over_selected(ms) ==
    IF ms = <<>> THEN None
    ELSE [tested |-> Len(ms),
          avg_total_time |-> (SumOf(ms, "total_time") * Scale) \div NumSelected,
          avg_prompt_delay |-> (SumOf(ms, "prompt_delay_time") * Scale) \div NumSelected,
          avg_generation_time |-> (SumOf(ms, "generation_time") * Scale) \div NumSelected,
          avg_tokens |-> (SumOf(ms, "total_tokens") * Scale) \div NumSelected,
          avg_gen_speed |-> (SumOf(ms, "tokens_per_second") * Scale) \div NumSelected,
          avg_req_speed |-> (SumOf(ms, "request_tokens_per_second") * Scale) \div NumSelected]

\* display_summary(all_metrics): what is printed, or None when nothing is
display_summary(ms) ==
    IF ms = <<>> THEN None
    ELSE [tested |-> Len(ms),
          avg_total_time |-> Average(ms, "total_time"),
          avg_prompt_delay |-> Average(ms, "prompt_delay_time"),
          avg_generation_time |-> Average(ms, "generation_time"),
          avg_tokens |-> Average(ms, "total_tokens"),
          avg_gen_speed |-> Average(ms, "tokens_per_second"),
          avg_req_speed |-> Average(ms, "request_tokens_per_second")]

\* run_benchmark ending the session only when some job has succeeded
EndSessionUnlessEmpty ==
    /\ sessPc = "running"
    /\ pc = "Idle"
    /\ idx > NumSelected
    /\ all_metrics # <<>>
    /\ sessPc' = "ended"
    /\ IF Raises(output_file)
       THEN \* OSError from the footer: the handler at lines 504-506 prints
            \* and calls end_session() again, which raises again and leaves
            \* run_benchmark; main prints the error and returns 1
            /\ unflushed' = FileWrite(Pending(output_file, SessionFooter), SessionFooter)
            /\ file_errors' = file_errors + 2
            /\ summary' = None
            /\ completion' = None
            /\ status' = Exit(1)
            /\ UNCHANGED <<output_file, log, disk>>
       ELSE /\ end_session(log)
            /\ file_errors' = file_errors
            /\ summary' = IF Len(all_metrics) > 1 THEN display_summary(all_metrics)
                          ELSE None
            /\ completion' = [successful |-> Len(all_metrics),
                              attempted |-> Len(selected_prompts)]
            /\ status' = Exit(0)
    /\ UNCHANGED <<service_name, selected_prompts, idx, all_metrics, delivered,
                   current_metrics, now, pc, localVars, sent, result, hist>>
    /\ UNCHANGED remoteVars

\* the end of run_benchmark, lines 491-499: end_session() writes the footer
\* and closes the log, then the summary and the completion line are printed
EndSession ==
    /\ sessPc = "running"
    /\ pc = "Idle"
    /\ idx > NumSelected
    /\ sessPc' = "ended"
    /\ IF Raises(output_file)
       THEN \* OSError from the footer: the handler at lines 504-506 prints
            \* and calls end_session() again, which raises again and leaves
            \* run_benchmark; main prints the error and returns 1
            /\ unflushed' = FileWrite(Pending(output_file, SessionFooter), SessionFooter)
            /\ file_errors' = file_errors + 2
            /\ summary' = None
            /\ completion' = None
            /\ status' = Exit(1)
            /\ UNCHANGED <<output_file, log, disk>>
       ELSE /\ end_session(log)
            /\ file_errors' = file_errors
            /\ summary' = IF Len(all_metrics) > 1 THEN display_summary(all_metrics)
                          ELSE None
            /\ completion' = [successful |-> Len(all_metrics),
                              attempted |-> Len(selected_prompts)]
            /\ status' = Exit(0)
    /\ UNCHANGED <<service_name, selected_prompts, idx, all_metrics, delivered,
                   current_metrics, now, pc, localVars, sent, result, hist>>
    /\ UNCHANGED remoteVars

Next ==
    \/ StartSession
    \/ StartJob
    \/ OpenStream
    \/ OpenFail
    \/ ProcessLine
    \/ StreamEnd
    \/ ReadFail
    \/ FallbackStart
    \/ FallbackResponse
    \/ FallbackFail
    \/ ReturnJob
    \/ EndSession

Spec == Init /\ [][Next]_vars

\* The program is one thread that takes its next step whenever it has one:
\* every HTTP call returns or raises, every body ends, every sleep ends
SpecLive == Spec /\ WF_vars(Next)

\* ------------------------------------------- faults of the environment
\* the interrupt handled as the failure of a streaming attempt is
InterruptCaught ==
    /\ sessPc = "running"
    /\ pc \in {"Requesting", "Streaming"}
    /\ pc' = "FallbackSleep"
    /\ hist' = [hist EXCEPT !.fail = "interrupt", !.at = pc]
    /\ ResetLocals
    /\ UNCHANGED <<sessVars, logVars, current_metrics, now, start_time, sent, result>>
    /\ UNCHANGED remoteVars

\* The operator presses Ctrl-C while run_benchmark is inside its try block:
\* KeyboardInterrupt is not an Exception, so it passes the handlers of
\* make_streaming_request, make_api_request_with_live_display and
\* run_single_benchmark and reaches the handler at lines 501-503, which
\* calls end_session(); run_benchmark then returns to main
Interrupt ==
    /\ sessPc = "running"
    /\ idx <= NumSelected \/ pc # "Idle"
    /\ sessPc' = "interrupted"
    /\ IF Raises(output_file)
       THEN \* OSError from the footer inside the handler leaves
            \* run_benchmark; main prints the error and returns 1
            /\ log' = BriefLog(log)
            /\ unflushed' = Pending(output_file, SessionFooter)
            /\ file_errors' = file_errors + 1
            /\ status' = Exit(1)
            /\ UNCHANGED <<output_file, disk>>
       ELSE /\ end_session(BriefLog(log))
            /\ file_errors' = file_errors
            /\ status' = Exit(0)
    /\ pc' = "Interrupted"
    /\ hist' = [NoHist EXCEPT !.fail = "interrupt", !.at = pc]
    /\ ResetLocals
    /\ start_time' = NoTime
    /\ result' = None
    /\ UNCHANGED <<service_name, selected_prompts, idx, all_metrics, delivered, summary,
                   completion, current_metrics, now, sent>>
    /\ UNCHANGED remoteVars

\* the file system starts to refuse writes (disk full, volume gone) and goes
\* on refusing them for the rest of the session
DiskFails ==
    /\ sessPc \in {"constructed", "running"}
    /\ disk = "ok"
    /\ disk' = "full"
    /\ UNCHANGED <<sessVars, output_file, log, unflushed, file_errors, current_metrics,
                   now, pc, localVars, sent, result, hist>>
    /\ UNCHANGED remoteVars

\* Ctrl-C, or an exception of a print, arrives once run_benchmark has
\* reached its own end_session() call at line 492: inside end_session
\* between the footer and close() (lines 97-98), at the message after
\* close() (line 99), or at the completion message (line 499). The handler at
\* lines 501-506 calls end_session() again; output_file still holds the file
\* object, which is true when closed, so the footer is written a second time,
\* on a closed file at the last two points: that raises ValueError, which
\* leaves run_benchmark, and main prints the error and returns 1
InterruptAtEnd ==
    /\ sessPc = "running"
    /\ pc = "Idle"
    /\ idx > NumSelected
    /\ ~Raises(output_file)
    /\ sessPc' = "interrupted"
    /\ \E point \in {"footer", "closed", "complete"} :
         /\ hist' = [NoHist EXCEPT !.fail = "interrupt_at_end", !.at = point,
                                   !.closed_writes =
                                      IF point # "footer" /\ output_file # "none"
                                      THEN 1 ELSE 0]
         /\ IF point = "footer"
            THEN /\ end_session(Write(output_file, log, SessionFooter))
                 /\ status' = Exit(0)
                 /\ file_errors' = file_errors
            ELSE /\ end_session(log)
                 /\ status' = IF output_file # "none" THEN Exit(1) ELSE Exit(0)
                 /\ file_errors' = file_errors + (IF output_file # "none" THEN 1 ELSE 0)
         /\ summary' = IF point = "complete" /\ Len(all_metrics) > 1
                       THEN display_summary(all_metrics) ELSE None
    /\ completion' = None
    /\ UNCHANGED <<service_name, selected_prompts, idx, all_metrics, delivered,
                   current_metrics, now, pc, localVars, sent, result>>
    /\ UNCHANGED remoteVars

NextFaults ==
    \/ Next
    \/ Interrupt
    \/ InterruptAtEnd
    \/ DiskFails

SpecFaults == Init /\ [][NextFaults]_vars

\* ------------------------------------------- the display driven by a caller
\* LiveBenchmarkDisplay used through its methods alone, in any order, as the
\* example at savellmbench.py lines 280-317 does, on a display whose
\* start_session() has not opened a log; pc is the last method called
InitDisplay ==
    /\ service_name \in Services
    /\ selected_prompts = Prompts
    /\ sessPc = "running"
    /\ idx = 1
    /\ all_metrics = <<>>
    /\ delivered = 0
    /\ summary = None
    /\ completion = None
    /\ status = None
    /\ output_file = "none"
    /\ log = <<>>
    /\ unflushed = <<>>
    /\ file_errors = 0
    /\ disk = "ok"
    /\ current_metrics = None
    /\ now = StartClock
    /\ pc = "constructed"
    /\ start_time = NoTime
    /\ first_token_time = NoTime
    /\ accumulated_response = <<>>
    /\ total_tokens = 0
    /\ estimated_tokens = Unbound
    /\ last_display_update = NoTime
    /\ sent = <<>>
    /\ result = None
    /\ hist = NoHist
    /\ NoRemote

engineVars == <<sessVars, localVars, sent, result, hist>>

CallStartPrompt ==
    /\ \E t \in now..MaxTime : \E name \in PromptNames :
         /\ start_prompt_benchmark(t, name)
         /\ now' = t
    /\ pc' = "start_prompt_benchmark"
    /\ UNCHANGED <<engineVars, file_errors>>
    /\ UNCHANGED remoteVars

CallUpdateFirstToken ==
    /\ \E t \in now..MaxTime :
         /\ current_metrics' = update_first_token(current_metrics, t)
         /\ now' = t
    /\ pc' = "update_first_token"
    /\ UNCHANGED <<engineVars, logVars>>
    /\ UNCHANGED remoteVars

CallUpdateResponse ==
    /\ current_metrics # None => Len(current_metrics.response_text) < MaxLines
    /\ \E t \in now..MaxTime : \E text \in Chunks : \E count \in 0..MaxCount :
         /\ current_metrics' = update_response(current_metrics, text, count, t)
         /\ now' = t
    /\ pc' = "update_response"
    /\ UNCHANGED <<engineVars, logVars>>
    /\ UNCHANGED remoteVars

CallComplete ==
    /\ \E t \in now..MaxTime : \E text \in Chunks : \E count \in 0..MaxCount :
         /\ complete_prompt_benchmark(current_metrics, text, count, t)
         /\ now' = t
    /\ pc' = "complete_prompt_benchmark"
    /\ UNCHANGED <<engineVars, file_errors>>
    /\ UNCHANGED remoteVars

NextDisplay ==
    \/ CallStartPrompt
    \/ CallUpdateFirstToken
    \/ CallUpdateResponse
    \/ CallComplete

SpecDisplay == InitDisplay /\ [][NextDisplay]_vars

\* --------------------------------------------------- RemoteServerConfig
\* A server URL is the text typed by the operator: an optional scheme
\* followed by the name of a host
Schemes == {"http://", "https://"}
Host(k) == <<ToString(k)>>
Typed(scheme, k) == IF scheme = "" THEN Host(k) ELSE <<scheme>> \o Host(k)

\* the hosts that are also reached over https
SecureHosts == {1}

\* server_url.startswith(('http://', 'https://'))
StartsWithScheme(server_url) == Len(server_url) > 0 /\ server_url[1] \in Schemes

\* lines 44-45 of add_server
Normalise(server_url) ==
    IF StartsWithScheme(server_url) THEN server_url ELSE <<"http://">> \o server_url

\* list.remove(x): the first occurrence goes
RemoveFirst(servers, x) ==
    LET at == CHOOSE i \in 1..Len(servers) :
                  servers[i] = x /\ \A j \in 1..(i - 1) : servers[j] # x
    IN  SubSeq(servers, 1, at - 1) \o SubSeq(servers, at + 1, Len(servers))

\* add_server with no removal of the entry already stored
add_server_keeping(servers, server_url) ==
    LET inserted == <<Normalise(server_url)>> \o servers
    IN  SubSeq(inserted, 1, Min(Len(inserted), MaxStored))

\* add_server(server_url), lines 41-53: the new value of stored_servers
add_server(servers, server_url) ==
    LET url == Normalise(server_url)
        removed == IF \E i \in 1..Len(servers) : servers[i] = url
                   THEN RemoveFirst(servers, url) ELSE servers
        inserted == <<url>> \o removed
    IN  SubSeq(inserted, 1, Min(Len(inserted), MaxStored))

\* the data of _save_stored_servers with the session's key added to it
SavedDataWithKey(servers, key) == [servers |-> servers, api_key |-> key]

\* _save_stored_servers, line 35: the data handed to json.dump
SavedData(servers, key) == [servers |-> servers]

\* get_auth_headers()
get_auth_headers(key) ==
    IF key # None
    THEN [content_type |-> "application/json", authorization |-> <<"Bearer", key>>,
          x_api_key |-> key]
    ELSE [content_type |-> "application/json"]

\* the first endpoint of test_endpoints answering with 200, 401 or 403, and
\* its status code; None when no endpoint answers
Probes ==
    {[endpoint |-> e, code |-> c] :
        e \in {"/api/tags", "/v1/models", "/health", "/completion", "/"},
        c \in {200, 401}} \cup {None}

\* test_server_connection(server_url): the service_info returned
test_server_connection(server_url, key, probe) ==
    IF probe # None
    THEN [name |-> CASE probe.endpoint = "/api/tags" -> "Ollama"
                     [] probe.endpoint = "/v1/models" -> "vLLM"
                     [] probe.endpoint \in {"/health", "/completion"} -> "Llama.cpp"
                     [] OTHER -> "Remote LLM",
          host |-> server_url,
          api_responding |-> (probe.code = 200),
          process_running |-> FALSE,
          status |-> IF probe.code = 200 THEN <<"Available">>
                     ELSE <<"Auth Required", probe.code>>,
          remote |-> TRUE,
          auth_headers |-> get_auth_headers(key)]
    ELSE [name |-> "Remote LLM", host |-> server_url, api_responding |-> FALSE,
          process_running |-> FALSE, status |-> <<"Connection Failed">>,
          remote |-> TRUE, auth_headers |-> get_auth_headers(key)]

\* the variables of the benchmark, which RemoteServerConfig does not touch
benchVars == <<sessVars, logVars, current_metrics, now, pc, localVars, sent, result, hist>>

\* add_server(server_url) followed by its _save_stored_servers(): the write
\* of the file may fail (the handler at lines 38-39 prints a warning), and
\* then the file is left as it was or, when json.dump fails after open() has
\* truncated it, empty. The operator types the next unused host, or, a
\* bounded number of times, a host typed before: the first two or the last
AddServer ==
    /\ \E k \in ({called.hosts + 1} \cap 1..MaxHosts)
                 \cup ({1, 2, called.hosts} \cap 1..called.hosts) :
       \E scheme \in {""} \cup (IF k \in SecureHosts THEN Schemes ELSE {"http://"}) :
       \E saved \in {"written", "unchanged", "truncated"} :
         /\ k <= called.hosts => called.readds < MaxReadds
         /\ stored_servers' = add_server(stored_servers, Typed(scheme, k))
         /\ config_file' = CASE saved = "written" ->
                                  SavedData(stored_servers', current_api_key)
                             [] saved = "unchanged" -> config_file
                             [] OTHER -> Truncated
         /\ called' = [op |-> "add_server", arg |-> Typed(scheme, k), ret |-> None,
                       hosts |-> IF k > called.hosts THEN k ELSE called.hosts,
                       readds |-> called.readds + (IF k <= called.hosts THEN 1 ELSE 0)]
    /\ UNCHANGED <<current_api_key, benchVars>>

\* prompt_for_api_key(server_url): the operator types a key, or nothing, or
\* presses Ctrl-C
PromptForApiKey ==
    /\ stored_servers # <<>>
    /\ \E typed \in {"key", "", "interrupt"} :
         /\ current_api_key' = CASE typed = "key" -> ApiKey
                                  [] typed = "" -> None
                                  [] OTHER -> current_api_key
         /\ called' = [called EXCEPT !.op = "prompt_for_api_key", !.arg = typed,
                                     !.ret = IF typed = "interrupt" THEN None
                                             ELSE current_api_key']
    /\ UNCHANGED <<stored_servers, config_file, benchVars>>

GetAuthHeaders ==
    /\ called' = [called EXCEPT !.op = "get_auth_headers", !.arg = None,
                                !.ret = get_auth_headers(current_api_key)]
    /\ UNCHANGED <<stored_servers, config_file, current_api_key, benchVars>>

TestServerConnection ==
    /\ stored_servers # <<>>
    /\ \E probe \in Probes :
         called' = [called EXCEPT !.op = "test_server_connection",
                                 !.arg = stored_servers[1],
                                 !.ret = test_server_connection(stored_servers[1],
                                                                current_api_key, probe)]
    /\ UNCHANGED <<stored_servers, config_file, current_api_key, benchVars>>

\* a RemoteServerConfig constructed with no remote_servers.json, before the
\* benchmark is constructed
InitServers ==
    /\ service_name = "Unknown"
    /\ selected_prompts = <<Prompts[1]>>
    /\ sessPc = "constructed"
    /\ idx = 1
    /\ all_metrics = <<>>
    /\ delivered = 0
    /\ summary = None
    /\ completion = None
    /\ status = None
    /\ output_file = "none"
    /\ log = <<>>
    /\ unflushed = <<>>
    /\ file_errors = 0
    /\ disk = "ok"
    /\ current_metrics = None
    /\ now = StartClock
    /\ pc = "Idle"
    /\ start_time = NoTime
    /\ first_token_time = NoTime
    /\ accumulated_response = <<>>
    /\ total_tokens = 0
    /\ estimated_tokens = Unbound
    /\ last_display_update = NoTime
    /\ sent = <<>>
    /\ result = None
    /\ hist = NoHist
    /\ NoRemote

NextServers ==
    \/ AddServer
    \/ PromptForApiKey
    \/ GetAuthHeaders
    \/ TestServerConnection

SpecServers == InitServers /\ [][NextServers]_vars

\* ================================================================ claims
Last(seq) == seq[Len(seq)]
KnownServices == {"Ollama", "vLLM", "Llama.cpp"}

\* a step of ProcessLine
LineStep == pc = "Streaming" /\ delivered' = delivered + 1

\* C1: when the streaming attempt of a job died on a transport error while
\* reading the body, after content had been accumulated and before any end
\* marker, exactly one non-streaming request follows the streaming one, and
\* the result of the job (text, token count, start instants, times) comes
\* from the fallback response alone, in the returned metrics, in the
\* LiveMetrics and in the log.
C1_FallbackResultFromFallbackOnly ==
    (hist.fail = "read" /\ hist.partial /\ ~hist.final
        /\ pc \in {"FallbackRequesting", "Done", "Failed"}) =>
      /\ Len(sent) = 2 /\ sent[1].stream /\ ~sent[2].stream
      /\ pc = "Done" =>
           LET info == extract_response_info(service_name, hist.fbody)
           IN /\ current_metrics.response_text = info.text
              /\ current_metrics.total_tokens = info.tokens
              /\ current_metrics.start_time = hist.fdisp
              /\ current_metrics.current_time = now
              /\ result.total_tokens = info.tokens
              /\ result.total_time = now - hist.fstart
              /\ result.prompt_delay_time = first_token_time - hist.fstart
              /\ result.generation_time = now - first_token_time
              /\ output_file = "open" =>
                   /\ Last(log).kind = "results"
                   /\ Last(log).response_text = info.text
                   /\ Last(log).total_tokens = info.tokens
                   /\ Last(log).total_elapsed = now - hist.fdisp
                   /\ log[Len(log) - 1].kind = "prompt"

C1_Witness ==
    /\ pc = "Done" /\ hist.fail = "read" /\ hist.partial
    /\ output_file = "open"
    /\ current_metrics.response_text # <<>>
    /\ result.total_time > 0

\* C2: a job sends at most one streaming request, then at most one
\* non-streaming request, the latter only after the streaming attempt has
\* failed; nothing is sent after a failed fallback.
C2_AtMostOneRequestEach ==
    /\ Len(sent) <= 2
    /\ \A i \in 1..Len(sent) : sent[i].job = idx /\ (sent[i].stream <=> i = 1)
    /\ Len(sent) = 2 => hist.fail # "none"
    /\ pc \in {"Requesting", "Streaming"} => Len(sent) = 1
    /\ pc = "Failed" => Len(sent) = (IF service_name \in KnownServices THEN 2 ELSE 0)

C2_Witness == pc = "Failed" /\ Len(sent) = 2 /\ hist.fbody = [t |-> "raised"]

\* C3: with a service that is none of the three variants no request is sent
\* and no job returns a result.
C3_UnsupportedServiceSendsNothing ==
    service_name \notin KnownServices =>
      /\ sent = <<>>
      /\ result = None
      /\ all_metrics = <<>>
      /\ pc \in {"Idle", "FallbackSleep", "Failed"}
      /\ delivered = 0

C3_Witness == service_name \notin KnownServices /\ pc = "Failed" /\ idx = 1

\* C4: a transport error of the streaming request is followed by the
\* fallback request; a job whose fallback fails too returns no result, and
\* the loop goes on: the next prompt is started, and the session ends only
\* after every selected prompt has been run, with the footer written.
C4_StateInv ==
    /\ (hist.fail \in {"open", "read"} /\ pc \in {"FallbackRequesting", "Done", "Failed"})
          => Len(sent) = 2 /\ ~sent[2].stream
    /\ pc = "Failed" => result = None
    /\ (sessPc = "running" /\ pc = "Idle" /\ idx <= NumSelected) => ENABLED StartJob
    /\ pc \in {"Done", "Failed"} => sessPc = "running" /\ ENABLED ReturnJob
    /\ sessPc = "ended" =>
         /\ idx = NumSelected + 1
         /\ output_file # "open"
         /\ output_file = "closed" => Last(log) = SessionFooter
C4_Step ==
    /\ (pc \in {"Requesting", "Streaming"} /\ hist'.fail \in {"open", "read"})
          => pc' = "FallbackSleep"
    /\ (pc = "FallbackSleep" /\ pc' # pc /\ hist.fail \in {"open", "read"})
          => pc' = "FallbackRequesting" /\ Len(sent') = 2
    /\ (pc = "Failed" /\ pc' # pc)
          => /\ pc' = "Idle"
             /\ idx' = idx + 1
             /\ all_metrics' = all_metrics
             /\ sessPc' = "running"
C4_FailedJobIsSkipped == [](C4_StateInv) /\ [][C4_Step]_vars

C4_Witness ==
    /\ NumSelected >= 2 /\ idx = 2 /\ service_name \in KnownServices
    /\ all_metrics = <<>>
    /\ pc = "Done"

\* C5: a line that is not valid JSON is skipped: the text, the token counts
\* and the first-token time stay as they are, in the locals and in the
\* LiveMetrics, no fallback is started, and the loop stays in the stream.
C5_Step ==
    (LineStep /\ hist'.last = "malformed") =>
      /\ pc' = "Streaming"
      /\ hist'.fail = "none"
      /\ accumulated_response' = accumulated_response
      /\ total_tokens' = total_tokens
      /\ estimated_tokens' = estimated_tokens
      /\ first_token_time' = first_token_time
      /\ current_metrics' = current_metrics
      /\ sent' = sent
      /\ result' = result
C5_MalformedLineSkipped == [][C5_Step]_vars

C5_Witness ==
    /\ pc = "Streaming" /\ hist.last = "malformed"
    /\ accumulated_response # <<>>
    /\ first_token_time # NoTime

\* C6 (as stated): a line that is valid JSON but not a record of the expected
\* shape is skipped: the stream goes on, nothing is raised, no fallback.
C6_Step ==
    (LineStep /\ hist'.last = "nonrecord") =>
      /\ pc' = "Streaming"
      /\ hist'.fail = "none"
      /\ accumulated_response' = accumulated_response
C6_NonRecordLineSkipped == [][C6_Step]_vars

\* C7 (as stated): an explicit end marker always finalizes the job on the
\* streaming path, whatever came before it, without a fallback request.
C7_Step ==
    (LineStep /\ hist'.last = "final") =>
      /\ pc' = "Done"
      /\ hist'.fail = "none"
      /\ Len(sent') = 1
C7_FinalAlwaysFinalizes == [][C7_Step]_vars

\* C8 (as stated): in an Ollama stream every content record appends its
\* fragment and leaves the first-token time set, and an end record with a
\* count n >= 1 finalizes the job with the text accumulated before followed
\* by its own fragment and with n tokens; no line is processed after it.
C8_Step ==
    /\ (LineStep /\ service_name = "Ollama" /\ hist'.last = "record") =>
         /\ pc' = "Streaming"
         /\ first_token_time' # NoTime
         /\ first_token_time # NoTime => first_token_time' = first_token_time
         /\ \E c \in Chunks : accumulated_response' = accumulated_response \o c
    /\ (LineStep /\ service_name = "Ollama" /\ hist'.last = "final"
          /\ Get(hist'.line.body, "eval_count", 0) >= 1) =>
         /\ pc' = "Done"
         /\ first_token_time' # NoTime
         /\ result'.total_tokens = hist'.line.body.f.eval_count
         /\ current_metrics'.response_text =
               accumulated_response \o Get(hist'.line.body, "response", <<>>)
    /\ pc = "Done" => delivered' = delivered
C8_OllamaStreamResult == [][C8_Step]_vars

\* C9 (as stated): when an Ollama or Llama.cpp job is finalized by an end
\* record carrying a count n, the token count of the returned metrics, of the
\* LiveMetrics and of the log is n, for every n >= 0 and every text.
CountKey == IF service_name = "Ollama" THEN "eval_count" ELSE "tokens_predicted"
C9_Step ==
    (LineStep /\ service_name \in {"Ollama", "Llama.cpp"}
       /\ hist'.last = "final" /\ pc' = "Done"
       /\ CountKey \in DOMAIN hist'.line.body.f) =>
      /\ result'.total_tokens = hist'.line.body.f[CountKey]
      /\ current_metrics'.total_tokens = hist'.line.body.f[CountKey]
      /\ output_file = "open" => Last(log').total_tokens = hist'.line.body.f[CountKey]
C9_AuthoritativeCountKept == [][C9_Step]_vars

\* C10: when the body ends with no end marker seen, the job completes on the
\* streaming path: one request only, no failure, the accumulated text as the
\* response and its word-count estimate as the token count, in the returned
\* metrics, in the LiveMetrics and in the log.
C10_Step ==
    (pc = "Streaming" /\ pc' = "Done" /\ ~hist'.final) =>
      /\ sent' = sent /\ Len(sent) = 1
      /\ hist'.fail = "none"
      /\ accumulated_response' = accumulated_response
      /\ current_metrics'.response_text = accumulated_response
      /\ result'.total_tokens = (13 * WordCount(accumulated_response)) \div 10
      /\ current_metrics'.total_tokens = result'.total_tokens
      /\ output_file = "open" =>
           /\ Last(log').kind = "results"
           /\ Last(log').response_text = accumulated_response
           /\ Last(log').total_tokens = result'.total_tokens
C10_EndOfStreamFinalizes == [][C10_Step]_vars

C10_Witness ==
    /\ pc = "Done" /\ ~hist.final /\ hist.fail = "none"
    /\ Len(sent) = 1
    /\ accumulated_response # <<>>
    /\ result.total_tokens > 0
    /\ output_file = "open"

\* C11 (as stated): a stream that ends without having delivered any content,
\* by exhaustion of the body or by an explicit end marker that carries no
\* count, completes the job with total_tokens = 0 and tokens_per_second = 0.
ChunkKey == IF service_name = "Ollama" THEN "response" ELSE "content"
EndMarkerBare(line) ==
    \/ service_name = "vLLM"
    \/ /\ CountKey \notin DOMAIN line.body.f
       /\ Get(line.body, ChunkKey, <<>>) = <<>>
C11_Step ==
    (/\ pc = "Streaming" /\ accumulated_response = <<>>
     /\ \/ delivered' = delivered /\ pc' = "Done"
        \/ LineStep /\ hist'.last = "final" /\ EndMarkerBare(hist'.line)) =>
      /\ pc' = "Done"
      /\ result'.total_tokens = 0
      /\ result'.tokens_per_second = 0
C11_NoContentGivesZero == [][C11_Step]_vars

\* the BenchmarkMetrics that exist: the one just returned and the collected
Returned ==
    {all_metrics[i] : i \in 1..Len(all_metrics)} \cup (IF result # None THEN {result} ELSE {})

\* C12: every BenchmarkMetrics returned, on the streaming path and on the
\* fallback path, has total_time >= prompt_delay_time >= 0,
\* total_time >= generation_time >= 0 and
\* prompt_delay_time + generation_time = total_time.
C12_TimesAddUp ==
    \A m \in Returned :
      /\ m.total_time >= m.prompt_delay_time /\ m.prompt_delay_time >= 0
      /\ m.total_time >= m.generation_time /\ m.generation_time >= 0
      /\ m.prompt_delay_time + m.generation_time = m.total_time

C12_Witness ==
    /\ pc = "Done" /\ hist.fail # "none" /\ Len(sent) = 2
    /\ Len(all_metrics) = 1
    /\ all_metrics[1].prompt_delay_time > 0
    /\ all_metrics[1].generation_time > 0

\* C13: in every BenchmarkMetrics and in every LiveMetrics, total_tokens = 0
\* gives two throughputs of 0, and a throughput is 0 whenever the time it is
\* divided by is <= 0.
C13_ThroughputGuarded ==
    /\ \A m \in Returned :
         /\ m.total_tokens = 0 => m.tokens_per_second = 0 /\ m.request_tokens_per_second = 0
         /\ m.generation_time <= 0 => m.tokens_per_second = 0
         /\ m.total_time <= 0 => m.request_tokens_per_second = 0
    /\ current_metrics # None =>
         LET m == current_metrics
         IN /\ m.total_tokens = 0 =>
                 lm_tokens_per_second(m) = 0 /\ lm_request_tokens_per_second(m) = 0
            /\ (m.first_token_time = NoTime \/ m.current_time - m.first_token_time <= 0)
                 => lm_tokens_per_second(m) = 0
            /\ m.current_time - m.start_time <= 0 => lm_request_tokens_per_second(m) = 0
    /\ (output_file = "open" /\ pc = "Done") =>
         /\ Last(log).total_tokens = 0 =>
              Last(log).tokens_per_second = 0 /\ Last(log).request_tokens_per_second = 0
         /\ Last(log).generation_time <= 0 => Last(log).tokens_per_second = 0
         /\ Last(log).total_elapsed <= 0 => Last(log).request_tokens_per_second = 0

C13_Witness ==
    /\ pc = "Done" /\ output_file = "open"
    /\ result.total_tokens > 0 /\ result.generation_time = 0 /\ result.total_time > 0
    /\ result.request_tokens_per_second > 0
    /\ current_metrics.total_tokens > 0
    /\ lm_generation_time(current_metrics) = 0

\* C14 (as stated): on the streaming path a line that adds no content leaves
\* first_token_time unset, in the locals and in the LiveMetrics; it is set by
\* the first line whose fragment is non-empty.
C14_Step ==
    (LineStep /\ pc' = "Streaming" /\ first_token_time = NoTime) =>
      /\ accumulated_response' = accumulated_response =>
           /\ first_token_time' = NoTime
           /\ current_metrics'.first_token_time = NoTime
      /\ accumulated_response' # accumulated_response =>
           /\ first_token_time' = now'
           /\ current_metrics'.first_token_time = now'
C14_FirstTokenOnContent == [][C14_Step]_vars

\* C15 (as stated): update_first_token() called on a LiveMetrics whose
\* first_token_time is already set, at any later instant, leaves
\* first_token_time as the first call set it.
C15_Step ==
    (/\ pc' = "update_first_token"
     /\ current_metrics # None
     /\ current_metrics.first_token_time # NoTime) =>
       current_metrics'.first_token_time = current_metrics.first_token_time
C15_MarkFirstTokenIdempotent == [][C15_Step]_vars

\* C16: in the engine, the first_token_time of a LiveMetrics, once set, keeps
\* its value for as long as that LiveMetrics is the current one, that is until
\* start_prompt_benchmark makes a new one for the next request.
NewLiveMetricsStep ==
    \/ pc = "Idle" /\ pc' = "Requesting"
    \/ pc = "FallbackSleep" /\ pc' = "FallbackRequesting"
C16_Step ==
    (/\ current_metrics # None
     /\ current_metrics.first_token_time # NoTime
     /\ ~NewLiveMetricsStep) =>
       /\ current_metrics' # None
       /\ current_metrics'.first_token_time = current_metrics.first_token_time
C16_FirstTokenTimeStable == [][C16_Step]_vars

C16_Witness ==
    /\ pc = "Streaming" /\ idx = 1 /\ delivered = 2
    /\ hist.last = "record"
    /\ current_metrics.first_token_time # NoTime
    /\ now > current_metrics.first_token_time
    /\ current_metrics.current_time = now

\* C17: the selected prompts are run one at a time in the order of the list:
\* the requests in flight and the log entries written belong to prompt number
\* idx, idx moves by one and only when the job has reached Done or Failed,
\* a job is started only from Idle, and the session ends after the last one.
Pos(name) == CHOOSE k \in 1..NumSelected : selected_prompts[k] = name
Named(contents) == SelectSeq(contents, LAMBDA e : e.kind \in {"prompt", "results"})
C17_StateInv ==
    /\ idx \in 1..NumSelected + 1
    /\ pc # "Idle" => idx <= NumSelected
    /\ pc = "Idle" => sent = <<>>
    /\ \A i \in 1..Len(sent) : sent[i].job = idx /\ sent[i].payload.prompt = PromptText(selected_prompts[idx])
    /\ \A i \in 1..Len(all_metrics) :
         /\ Pos(all_metrics[i].prompt_name) < idx
         /\ \A j \in 1..(i - 1) : Pos(all_metrics[j].prompt_name) < Pos(all_metrics[i].prompt_name)
    /\ LET es == Named(log)
       IN \A i \in 1..Len(es) :
            /\ Pos(es[i].name) <= idx
            /\ pc = "Idle" => Pos(es[i].name) < idx
            /\ \A j \in 1..(i - 1) : Pos(es[j].name) <= Pos(es[i].name)
    /\ sessPc = "ended" => idx = NumSelected + 1 /\ pc = "Idle"
C17_Step ==
    /\ idx' # idx => idx' = idx + 1 /\ pc \in {"Done", "Failed"} /\ pc' = "Idle"
    /\ (pc # "Idle" /\ pc' = "Idle") => idx' = idx + 1
    /\ (pc = "Idle" /\ pc' # "Idle") => idx' = idx /\ sessPc = "running"
    /\ Len(sent') > Len(sent) => idx' = idx /\ Last(sent').job = idx
    /\ Len(log') > Len(log) /\ Last(log').kind \in {"prompt", "results"} =>
         idx' = idx /\ Last(log').name = selected_prompts[idx]
C17_PromptsInOrder == [](C17_StateInv) /\ [][C17_Step]_vars

C17_Witness ==
    /\ sessPc = "ended" /\ NumSelected = MaxPrompts /\ output_file = "closed"
    /\ Len(all_metrics) = MaxPrompts - 1
    /\ all_metrics[1].prompt_name = selected_prompts[1]
    /\ all_metrics[2].prompt_name = selected_prompts[3]

\* C18: at the end of the session the summary is printed exactly when two
\* or more jobs succeeded; each of its averages is the sum of that field over
\* the collected BenchmarkMetrics divided by their number; the collected ones
\* are exactly the results of the jobs that reached Done; the completion line
\* gives the number collected and the number of prompts selected.
RECURSIVE TotalUpTo(_, _)
TotalUpTo(k, field) ==
    IF k = 0 THEN 0 ELSE TotalUpTo(k - 1, field) + all_metrics[k][field]
IsMean(avg, field) ==
    LET n == Len(all_metrics)
        total == TotalUpTo(n, field)
    IN avg * n <= total * Scale /\ total * Scale < (avg + 1) * n
C18_StateInv ==
    /\ sessPc # "ended" => summary = None /\ completion = None
    /\ sessPc = "ended" =>
         /\ summary # None <=> Len(all_metrics) >= 2
         /\ completion = [successful |-> Len(all_metrics), attempted |-> NumSelected]
         /\ summary # None =>
              /\ summary.tested = Len(all_metrics)
              /\ IsMean(summary.avg_total_time, "total_time")
              /\ IsMean(summary.avg_prompt_delay, "prompt_delay_time")
              /\ IsMean(summary.avg_generation_time, "generation_time")
              /\ IsMean(summary.avg_tokens, "total_tokens")
              /\ IsMean(summary.avg_gen_speed, "tokens_per_second")
              /\ IsMean(summary.avg_req_speed, "request_tokens_per_second")
    /\ pc = "Done" => result # None
    /\ pc = "Failed" => result = None
C18_Step ==
    /\ (pc = "Done" /\ pc' = "Idle") => all_metrics' = Append(all_metrics, result)
    /\ (pc = "Failed" /\ pc' = "Idle") => all_metrics' = all_metrics
    /\ ~(pc \in {"Done", "Failed"} /\ pc' = "Idle") => all_metrics' = all_metrics
C18_SummaryOverSuccessfulJobs == [](C18_StateInv) /\ [][C18_Step]_vars

C18_Witness ==
    /\ sessPc = "ended" /\ NumSelected = MaxPrompts /\ Len(all_metrics) = 2
    /\ summary # None
    /\ summary.avg_tokens > 0
    /\ summary.avg_total_time > 0
    /\ completion.successful = 2 /\ completion.attempted = MaxPrompts

\* C19 (as stated): the log of an ended session holds exactly one prompt
\* header for each selected prompt, whatever the outcome of its job.
HeadersOf(name) ==
    Len(SelectSeq(log, LAMBDA e : e.kind = "prompt" /\ e.name = name))
C19_OneHeaderPerPrompt ==
    (sessPc = "ended" /\ output_file = "closed") =>
      \A k \in 1..NumSelected : HeadersOf(selected_prompts[k]) = 1

\* C20: the log holds one results block for each BenchmarkMetrics returned,
\* in the same order and with the same token count, and no other: none for a
\* job that failed, one only for a job that succeeded through the fallback.
ResultsBlocks == SelectSeq(log, LAMBDA e : e.kind = "results")
C20_OneResultsBlockPerSuccess ==
    output_file # "none" =>
      /\ Len(ResultsBlocks) = Len(all_metrics) + (IF pc = "Done" THEN 1 ELSE 0)
      /\ \A i \in 1..Len(all_metrics) : ResultsBlocks[i].name = all_metrics[i].prompt_name
      /\ pc = "Done" =>
           /\ Last(log).kind = "results"
           /\ Last(log).name = result.prompt_name
           /\ Last(log).total_tokens = result.total_tokens

C20_Witness ==
    /\ output_file = "open" /\ idx = 2 /\ all_metrics = <<>>
    /\ pc = "Done" /\ hist.fail # "none" /\ Len(sent) = 2
    /\ Len(ResultsBlocks) = 1

\* C25 (as stated): for every completed job the BenchmarkMetrics returned to
\* the session has the same total time, prompt delay, generation time, token
\* count and throughputs as the final results block written to the log.
C25_ReturnedEqualsLogged ==
    (pc = "Done" /\ output_file = "open") =>
      LET e == Last(log)
      IN /\ e.kind = "results"
         /\ result.total_time = e.total_elapsed
         /\ result.prompt_delay_time = e.prompt_delay_time
         /\ result.generation_time = e.generation_time
         /\ result.total_tokens = e.total_tokens
         /\ result.tokens_per_second = e.tokens_per_second
         /\ result.request_tokens_per_second = e.request_tokens_per_second

\* C26 (as stated): a refresh of the display made by the idle timer of the
\* streaming loop shows an elapsed time measured at the instant of the
\* refresh (current_time is moved to now) and leaves response_text,
\* total_tokens and first_token_time as they were.
IdleRefreshStep ==
    /\ LineStep
    /\ hist'.last \in {"blank", "ignored"}
    /\ last_display_update' # last_display_update
C26_Step ==
    IdleRefreshStep =>
      /\ current_metrics'.current_time = now'
      /\ update_display(current_metrics').total_elapsed
           = now' - current_metrics'.start_time
      /\ current_metrics'.response_text = current_metrics.response_text
      /\ current_metrics'.total_tokens = current_metrics.total_tokens
      /\ current_metrics'.first_token_time = current_metrics.first_token_time
C26_IdleRefreshShowsNow == [][C26_Step]_vars

\* C27 (as stated): every request goes to the endpoint of its service with
\* the body fields of that service, every body carries the generation-length
\* cap of 500, and the fallback request of a job differs from its streaming
\* request in the stream flag alone.
CapFields == {"max_tokens", "n_predict", "num_predict"}
HasCap(payload) == \E k \in DOMAIN payload \cap CapFields : payload[k] = 500
C27_RequestShape ==
    /\ \A i \in 1..Len(sent) :
         LET r == sent[i]
         IN /\ service_name = "Ollama" =>
                 /\ r.endpoint = "/api/generate"
                 /\ {"model", "prompt", "stream"} \subseteq DOMAIN r.payload
            /\ service_name = "vLLM" =>
                 /\ r.endpoint = "/v1/completions"
                 /\ {"model", "prompt", "max_tokens", "stream"} \subseteq DOMAIN r.payload
            /\ service_name = "Llama.cpp" =>
                 /\ r.endpoint = "/completion"
                 /\ {"prompt", "n_predict", "stream"} \subseteq DOMAIN r.payload
            /\ HasCap(r.payload)
            /\ r.payload.stream = (i = 1)
    /\ Len(sent) = 2 =>
         /\ sent[2].endpoint = sent[1].endpoint
         /\ sent[2].headers = sent[1].headers
         /\ sent[2].payload = [sent[1].payload EXCEPT !.stream = FALSE]

\* C28 (as stated): after a line that appends content without ending the
\* stream, the token estimate, in the locals and in the LiveMetrics, is the
\* integer nearest to 13w/10, w being the number of words accumulated.
IsNearest(n, w) == 10 * n - 13 * w \in -5..5
C28_Step ==
    (LineStep /\ pc' = "Streaming" /\ accumulated_response' # accumulated_response) =>
      /\ IsNearest(estimated_tokens', WordCount(accumulated_response'))
      /\ IsNearest(current_metrics'.total_tokens,
                   WordCount(current_metrics'.response_text))
C28_EstimateIsRounded == [][C28_Step]_vars

\* C21: after an operator interrupt the job and the session are abandoned:
\* no request is sent after it (the requests sent are those of the
\* interrupted job up to the interrupt, so no fallback follows an interrupted
\* streaming request and no later prompt is started), run_benchmark has
\* returned to main, and on a file system that accepts writes an open log
\* has got its footer as last entry and is closed.
C21_InterruptAbandons ==
    hist.fail = "interrupt" =>
      /\ sessPc = "interrupted"
      /\ pc = "Interrupted"
      /\ status # None
      /\ completion = None
      /\ \A i \in 1..Len(sent) : sent[i].job = idx
      /\ hist.at \in {"Requesting", "Streaming"} => Len(sent) = 1 /\ sent[1].stream
      /\ hist.at = "FallbackRequesting" => Len(sent) <= 2 /\ ~Last(sent).stream
      /\ hist.at = "FallbackSleep" => Len(sent) <= 1
      /\ Len(sent) <= 2
      /\ disk = "ok" =>
           /\ output_file \in {"none", "closed"}
           /\ unflushed = <<>>
           /\ status = Exit(0)
           /\ output_file = "closed" => Last(log) = SessionFooter

C21_Witness ==
    /\ sessPc = "interrupted" /\ hist.at = "Streaming"
    /\ idx = 1 /\ NumSelected = MaxPrompts /\ delivered = 1
    /\ Len(sent) = 1
    /\ output_file = "closed" /\ Last(log) = SessionFooter
    /\ Len(log) = 3

\* C22: when start_session could not create the log (open() or the write of
\* the header raised), the failure has been reported once and is never
\* reported again, no file object is kept, every later log operation leaves
\* the log and the buffer empty and raises nothing, and the prompts are run
\* as usual: a session that ends has attempted every selected prompt and
\* main returns 0.
LogNotCreated == sessPc # "constructed" /\ (log = <<>> \/ log[1] # SessionHeader)
C22_NoLogSessionRuns ==
    LogNotCreated =>
      /\ output_file = "none"
      /\ file_errors = 1
      /\ log = <<>>
      /\ unflushed = <<>>
      /\ hist.fail # "log"
      /\ status # None => status = Exit(0)
      /\ sessPc = "ended" =>
           /\ idx = NumSelected + 1
           /\ completion = [successful |-> Len(all_metrics), attempted |-> NumSelected]

C22_Witness ==
    /\ LogNotCreated /\ sessPc = "ended" /\ file_errors = 1
    /\ NumSelected = MaxPrompts /\ Len(all_metrics) >= 2
    /\ disk = "full"

\* C23 (as stated): a failure of a write to the open log never makes a
\* streaming attempt or a job fail, it is reported once, and after it the
\* display has no file object, so that later writes do nothing.
C23_LogFailureHarmless ==
    /\ hist.fail # "log"
    /\ file_errors <= 1
    /\ (file_errors = 1 /\ sessPc = "running") => output_file = "none"

\* C24 (as stated): main returns a non-zero status when the session ended
\* with no successful job, and 0 when at least one job succeeded.
C24_ZeroSuccessNonZeroStatus ==
    sessPc = "ended" =>
      /\ status # None
      /\ Len(all_metrics) = 0 => status # Exit(0)
      /\ Len(all_metrics) >= 1 => status = Exit(0)

\* C29: once the engine has left a request (the job is Done after
\* complete_prompt_benchmark, or complete_prompt_benchmark raised, or the job
\* failed, or the engine is between jobs), the LiveMetrics is not touched
\* again: the next change of current_metrics is the creation of a fresh
\* LiveMetrics by start_prompt_benchmark, for the streaming request of the
\* next job or for the fallback of this one.
Fresh(m) == m # None /\ m = NewLiveMetrics(m.start_time, m.prompt_name)
C29_Step ==
    (pc \in {"Done", "Failed", "FallbackSleep", "Idle", "Interrupted"}
     /\ current_metrics' # current_metrics) =>
      /\ pc \in {"Idle", "FallbackSleep"}
      /\ Fresh(current_metrics')
      /\ current_metrics'.prompt_name = selected_prompts[idx]
      /\ current_metrics'.start_time >= now
C29_FinalizationTerminal == [][C29_Step]_vars

C29_Witness ==
    /\ pc = "Requesting" /\ idx = 2 /\ Len(all_metrics) = 1
    /\ Fresh(current_metrics)
    /\ Len(ResultsBlocks) = 1
    /\ all_metrics[1].total_tokens > 0

\* C30: every log operation that returns has flushed what it wrote: as long
\* as the file system accepts writes nothing is held in the buffer of the
\* file object, and the log holds the session header, the header of the
\* prompt in flight, the results block of a job that is Done and, once
\* closed, the footer.
C30_WritesAreFlushed ==
    disk = "ok" =>
      /\ unflushed = <<>>
      /\ output_file # "none" =>
           /\ log # <<>> /\ log[1] = SessionHeader
           /\ pc \in {"Requesting", "Streaming", "FallbackRequesting"} =>
                Last(log) = PromptHeader(prompt_name)
           /\ pc = "Done" =>
                Last(log) = FinalResults(current_metrics)
           /\ output_file = "closed" => Last(log) = SessionFooter

C30_Witness ==
    /\ disk = "ok" /\ output_file = "open" /\ pc = "Done" /\ idx = 2
    /\ Len(log) = 5 /\ unflushed = <<>>
    /\ Last(log).total_tokens > 0

\* C31: the response of the fallback request is one final event. The first
\* token is marked once, on a LiveMetrics that had none, at the instant the
\* response arrived; a job that becomes Done has prompt delay = arrival -
\* start, generation time = end - arrival, and its results block is the last
\* entry of an open log; a response with an HTTP error status or a body that
\* is not JSON makes the job Failed, with no result and nothing written.
FallbackResponseStep ==
    pc = "FallbackRequesting" /\ hist'.fbody \notin {None, [t |-> "raised"]}
C31_Step ==
    FallbackResponseStep =>
      /\ pc' \in {"Done", "Failed"}
      /\ current_metrics.first_token_time = NoTime
      /\ first_token_time' \in now..now'
      /\ current_metrics'.first_token_time = first_token_time'
      /\ pc' = "Done" =>
           /\ result'.prompt_delay_time = first_token_time' - start_time
           /\ result'.generation_time = now' - first_token_time'
           /\ result'.total_time = now' - start_time
           /\ result'.total_tokens = current_metrics'.total_tokens
           /\ output_file = "open" =>
                /\ Len(log') = Len(log) + 1
                /\ Last(log') = FinalResults(current_metrics')
      /\ hist'.fbody \in {[t |-> "http_error"], BadJson} =>
           /\ pc' = "Failed"
           /\ result' = None
           /\ log' = log
C31_FallbackIsOneFinalEvent == [][C31_Step]_vars

C31_Witness ==
    /\ pc = "Done" /\ Len(sent) = 2 /\ output_file = "open"
    /\ result.prompt_delay_time > 0
    /\ result.total_tokens > 0
    /\ current_metrics.first_token_time = first_token_time
    /\ first_token_time > start_time

\* C32: when every HTTP call returns or raises and every body is finite, a
\* job that has started reaches Done or Failed, through the positions
\* Requesting, Streaming, FallbackSleep and FallbackRequesting in this order,
\* and a session that has started reaches the end of end_session.
InJob == {"Requesting", "Streaming", "FallbackSleep", "FallbackRequesting"}
JobTransitions ==
    {<<"Idle", "Requesting">>, <<"Idle", "FallbackSleep">>,
     <<"Requesting", "Streaming">>, <<"Requesting", "FallbackSleep">>,
     <<"Streaming", "Done">>, <<"Streaming", "FallbackSleep">>,
     <<"FallbackSleep", "FallbackRequesting">>, <<"FallbackSleep", "Failed">>,
     <<"FallbackRequesting", "Done">>, <<"FallbackRequesting", "Failed">>,
     <<"Done", "Idle">>, <<"Failed", "Idle">>}
C32_Step == pc' # pc => <<pc, pc'>> \in JobTransitions
C32_EveryJobAndSessionEnds ==
    /\ [][C32_Step]_vars
    /\ (pc \in InJob) ~> (pc \in {"Done", "Failed"})
    /\ (sessPc = "running") ~> (sessPc = "ended")

C32_Witness ==
    /\ sessPc = "ended" /\ NumSelected = MaxPrompts
    /\ all_metrics = <<>> /\ delivered = MaxLines
    /\ service_name \in KnownServices

\* C34: the service variant never changes during a session, so the
\* unsupported-service error is raised for every job of a session or for
\* none: a job fails with the configuration error exactly when the service is
\* none of the three variants, and such a session has no successful job.
C34_Step ==
    /\ service_name' = service_name
    /\ (pc = "Idle" /\ pc' # "Idle") =>
         (hist'.fail = "config" <=> service_name \notin KnownServices)
C34_ConfigErrorAllOrNone ==
    /\ [](hist.fail = "config" => service_name \notin KnownServices)
    /\ [](service_name \notin KnownServices =>
            /\ all_metrics = <<>> /\ result = None
            /\ pc \in {"Failed", "FallbackSleep"} => hist.fail = "config"
            /\ completion # None => completion.successful = 0)
    /\ [][C34_Step]_vars

C34_Witness ==
    /\ service_name \notin KnownServices /\ sessPc = "running"
    /\ NumSelected = MaxPrompts /\ idx = MaxPrompts
    /\ pc = "Failed" /\ hist.fail = "config" /\ all_metrics = <<>>

\* C33: once run_benchmark has left, whichever way, a session whose log was
\* opened has exactly one footer in it, the log is closed, and no write was
\* attempted on it after it had been closed.
IsFooter(entry) == entry = SessionFooter
Footers(contents) == Cardinality({i \in 1..Len(contents) : IsFooter(contents[i])})
C33_FooterOnceClosedOnce ==
    (sessPc \in {"ended", "interrupted"} /\ output_file # "none" /\ disk = "ok") =>
      /\ Footers(log) = 1
      /\ output_file = "closed"
      /\ hist.closed_writes = 0
      /\ unflushed = <<>>

\* C35: after any sequence of add_server calls from an empty list,
\* stored_servers has no URL twice and at most 10 entries, every entry begins
\* with a scheme, and after an add_server call the first entry is the typed
\* URL, prefixed with http:// when it was typed with no scheme; adding a URL
\* that is stored moves it to the front: the length and the order of the
\* other entries stay.
NoDuplicate(servers) ==
    \A i, j \in 1..Len(servers) : servers[i] = servers[j] => i = j
Stored(servers, url) == \E i \in 1..Len(servers) : servers[i] = url
Others(servers, url) == SelectSeq(servers, LAMBDA u : u # url)
C35_Inv ==
    /\ NoDuplicate(stored_servers)
    /\ Len(stored_servers) <= 10
    /\ \A i \in 1..Len(stored_servers) : stored_servers[i][1] \in Schemes
    /\ called.op = "add_server" =>
         /\ Len(stored_servers) >= 1
         /\ stored_servers[1] =
              (IF called.arg[1] \in Schemes THEN called.arg
               ELSE <<"http://">> \o called.arg)
C35_Step ==
    called'.op = "add_server" =>
      LET url == stored_servers'[1]
      IN  IF Stored(stored_servers, url)
          THEN /\ Len(stored_servers') = Len(stored_servers)
               /\ Others(stored_servers', url) = Others(stored_servers, url)
          ELSE /\ Len(stored_servers') = Min(Len(stored_servers) + 1, 10)
               /\ Others(stored_servers', url) =
                    SubSeq(stored_servers, 1, Len(stored_servers') - 1)
C35_StoredServersList == [](C35_Inv) /\ [][C35_Step]_vars

C35_Witness ==
    /\ called.op = "add_server" /\ called.arg = Host(2)
    /\ called.hosts = MaxHosts /\ called.readds = MaxReadds
    /\ Len(stored_servers) = 10
    /\ stored_servers[1] = <<"http://">> \o Host(2)
    /\ stored_servers[2] = <<"http://">> \o Host(MaxHosts)

\* C36: whatever RemoteServerConfig calls are made, remote_servers.json is
\* absent, empty after a failed write, or holds the list of server URLs and
\* nothing else; only add_server writes it; the key typed at the prompt is
\* in current_api_key and in the headers built from it, never in the file.
OnlyServers(data) ==
    /\ DOMAIN data = {"servers"}
    /\ \A i \in 1..Len(data.servers) :
         /\ Len(data.servers[i]) = 2
         /\ data.servers[i][1] \in Schemes
         /\ data.servers[i][2] \in {Host(k)[1] : k \in 1..MaxHosts}
C36_Inv ==
    /\ config_file \notin {None, Truncated} => OnlyServers(config_file)
    /\ current_api_key \in {None, ApiKey}
    /\ (called.op = "prompt_for_api_key" /\ called.arg = "key") =>
         current_api_key = ApiKey
    /\ called.op \in {"get_auth_headers", "test_server_connection"} =>
         LET headers == IF called.op = "get_auth_headers" THEN called.ret
                        ELSE called.ret.auth_headers
         IN  IF current_api_key = None
             THEN DOMAIN headers = {"content_type"}
             ELSE headers.x_api_key = current_api_key
C36_Step == called'.op # "add_server" => config_file' = config_file
C36_KeyNeverPersisted == [](C36_Inv) /\ [][C36_Step]_vars

C36_Witness ==
    /\ current_api_key = ApiKey
    /\ called.op = "add_server"
    /\ Len(stored_servers) >= 2
    /\ config_file = [servers |-> stored_servers]

====
